---- MODULE Spec2Model ----
(***************************************************************************)
(* The article extraction engine of still-reader                           *)
(* (src/src/extraction/extractor.ts) over an abstract DOM.                 *)
(*                                                                         *)
(* The DOM is a heap of element nodes addressed by integers.  A document   *)
(* is the subtree under the body node; cloneNode allocates fresh nodes in  *)
(* the same heap, so a write to the original tree is observable.  Strings  *)
(* that the code matches against patterns (class, id) are sequences of     *)
(* one-character strings; text is a sequence of runs (a literal repeated   *)
(* a number of times), which keeps lengths and trimming exact.             *)
(***************************************************************************)
EXTENDS Integers, Sequences, FiniteSets, TLC

VARIABLES
    heap,           \* the DOM: node id -> node record (document and clones)
    phase,          \* "build" while the page is being made, "called" after a call
    last,           \* record of the latest call of extractArticle / sanitizeClone
    before,         \* the heap as it was when the latest call started
    calls,          \* options -> result of the first call with them on this document
    navyLastIndex,  \* lastIndex of the module-level RegExp object NAVY_RE
    reader,         \* readerMode.ts: its module-level active, snapshot and state
    documentElement,\* the <html> element: its inline style, and document.title
    listeners,      \* the number of keydown listeners registered on document
    other           \* a second document that shares the reader module

readerVars == <<reader, documentElement, listeners, other>>

vars == <<heap, phase, last, before, calls, navyLastIndex, reader, documentElement, listeners, other>>

(***************************************************************************)
(* Bounds of the model.                                                    *)
(***************************************************************************)
MaxNodes == 3       \* elements added under body
MaxCalls == 2       \* calls of extractArticle on one document

(***************************************************************************)
(* Program constants.                                                      *)
(***************************************************************************)
MIN_TEXT_LENGTH == 150

NULL == "null"

(***************************************************************************)
(* Strings as sequences of characters.                                     *)
(***************************************************************************)
NAVY_RE ==
    { <<"n", "a", "v">>,
      <<"b", "r", "e", "a", "d", "c", "r", "u", "m", "b">>,
      <<"m", "e", "n", "u">>,
      <<"f", "o", "o", "t", "e", "r">>,
      <<"h", "e", "a", "d", "e", "r">>,
      <<"a", "s", "i", "d", "e">>,
      <<"c", "o", "m", "m", "e", "n", "t">>,
      <<"p", "r", "o", "m", "o">>,
      <<"s", "i", "d", "e", "b", "a", "r">>,
      <<"a", "d">> }

navPatterns ==
    { <<"s", "i", "t", "e", "h", "e", "a", "d", "e", "r">>,
      <<"s", "i", "t", "e", "-", "h", "e", "a", "d", "e", "r">>,
      <<"s", "i", "t", "e", "h", "e", "a", "d", "e", "r", "m", "a", "s", "t", "h", "e", "a", "d">>,
      <<"s", "i", "t", "e", "h", "e", "a", "d", "e", "r", "n", "a", "v", "i", "g", "a", "t", "i", "o", "n">> }

footerPatterns ==
    { <<"c", "a", "t", "-", "f", "o", "o", "t", "e", "r">>,
      <<"s", "i", "t", "e", "-", "f", "o", "o", "t", "e", "r">>,
      <<"m", "a", "i", "n", "-", "f", "o", "o", "t", "e", "r">>,
      <<"p", "a", "g", "e", "-", "f", "o", "o", "t", "e", "r">> }

relatedPatterns ==
    { <<"b", "e", "s", "t", "l", "i", "s", "t", "l", "i", "n", "k", "b", "l", "o", "c", "k">>,
      <<"a", "r", "t", "i", "c", "l", "e", "l", "i", "n", "k", "b", "l", "o", "c", "k">> }

relatedHeadings ==
    { <<"g", "u", "i", "d", "e">>,
      <<"r", "e", "l", "a", "t", "e", "d">>,
      <<"r", "e", "c", "o", "m", "m", "e", "n", "d", "e", "d">>,
      <<"y", "o", "u", " ", "m", "a", "y", " ", "a", "l", "s", "o">>,
      <<"r", "e", "a", "d", " ", "m", "o", "r", "e">>,
      <<"s", "i", "m", "i", "l", "a", "r">> }

adPatterns ==
    { <<"a", "d", "d", "i", "s", "p", "l", "a", "y">>,
      <<"a", "d", "c", "o", "n", "t", "a", "i", "n", "e", "r">>,
      <<"a", "d", "v", "e", "r", "t", "i", "s", "e", "m", "e", "n", "t">>,
      <<"a", "d", "-", "s", "l", "o", "t">>,
      <<"a", "d", "-", "u", "n", "i", "t">>,
      <<"a", "d", "s", "k", "y", "b", "o", "x">> }

S_srTitle == <<"s", "r", "-", "t", "i", "t", "l", "e">>
S_siteNav == <<"s", "i", "t", "e", "-", "n", "a", "v">>
S_avStickyVideo == <<"c", "-", "a", "v", "S", "t", "i", "c", "k", "y", "V", "i", "d", "e", "o">>
S_CnetAvStickyVideo == <<"c", "-", "C", "n", "e", "t", "A", "v", "S", "t", "i", "c", "k", "y", "V", "i", "d", "e", "o">>
S_vjs == <<"v", "j", "s", "-">>
S_avVideo == <<"c", "-", "a", "v", "V", "i", "d", "e", "o">>
S_metaContainer == <<"c", "-", "a", "r", "t", "i", "c", "l", "e", "H", "e", "a", "d", "e", "r", "_", "m", "e", "t", "a", "C", "o", "n", "t", "a", "i", "n", "e", "r">>
S_meta == <<"c", "-", "a", "r", "t", "i", "c", "l", "e", "H", "e", "a", "d", "e", "r", "_", "m", "e", "t", "a">>
S_topicBreadcrumbs == <<"c", "-", "t", "o", "p", "i", "c", "B", "r", "e", "a", "d", "c", "r", "u", "m", "b", "s">>
S_globalAuthorImage == <<"c", "-", "g", "l", "o", "b", "a", "l", "A", "u", "t", "h", "o", "r", "I", "m", "a", "g", "e">>
S_globalAuthorCard == <<"c", "-", "g", "l", "o", "b", "a", "l", "A", "u", "t", "h", "o", "r", "C", "a", "r", "d">>
C_sidebarNav == <<"s", "i", "d", "e", "b", "a", "r", " ", "n", "a", "v">>
T_Title == <<"T", "i", "t", "l", "e">>
T_Link == <<"L", "i", "n", "k">>
T_evil == <<"e", "v", "i", "l", "(", ")">>
LowerMap ==
    ("A" :> "a") @@ ("B" :> "b") @@ ("C" :> "c") @@ ("D" :> "d") @@ ("E" :> "e") @@ ("F" :> "f") @@ ("G" :> "g") @@ ("H" :> "h") @@ ("I" :> "i") @@ ("J" :> "j") @@ ("K" :> "k") @@ ("L" :> "l") @@ ("M" :> "m") @@ ("N" :> "n") @@ ("O" :> "o") @@ ("P" :> "p") @@ ("Q" :> "q") @@ ("R" :> "r") @@ ("S" :> "s") @@ ("T" :> "t") @@ ("U" :> "u") @@ ("V" :> "v") @@ ("W" :> "w") @@ ("X" :> "x") @@ ("Y" :> "y") @@ ("Z" :> "z")

EmptyStr == << >>

Whitespace == {" ", "\n", "\t"}

Lower(c) == IF c \in DOMAIN LowerMap THEN LowerMap[c] ELSE c

\* String.prototype.toLowerCase
ToLowerCase(s) == [i \in 1..Len(s) |-> Lower(s[i])]

\* s.startsWith(p)
StartsWith(s, p) == Len(p) <= Len(s) /\ SubSeq(s, 1, Len(p)) = p

\* p occurs in s at (1-based) position i
MatchesAt(s, p, i) == i + Len(p) - 1 <= Len(s) /\ SubSeq(s, i, i + Len(p) - 1) = p

\* String.prototype.includes
Includes(s, p) == \E i \in 1..(Len(s) + 1) : MatchesAt(s, p, i)

\* /(p1|p2|...)/i.test(s) for a RegExp without the g or y flag: the search
\* always starts at 0 and lastIndex is neither read nor written.
RegexTest(pats, s) == \E p \in pats : Includes(ToLowerCase(s), p)

\* /^(p1|p2|...)/i.test(s)
RegexTestAnchored(pats, s) == \E p \in pats : StartsWith(ToLowerCase(s), p)

\* DOMTokenList.contains: tok is one of the whitespace-separated tokens of s
ClassListContains(s, tok) ==
    \E i \in 1..Len(s) :
        /\ MatchesAt(s, tok, i)
        /\ (i = 1 \/ s[i - 1] \in Whitespace)
        /\ (i + Len(tok) > Len(s) \/ s[i + Len(tok)] \in Whitespace)

(***************************************************************************)
(* Text: a sequence of runs [chars, rep], the literal chars repeated rep   *)
(* times.  A run is either all whitespace or starts and ends with a        *)
(* non-whitespace character.                                               *)
(***************************************************************************)
Run(chars, rep) == [chars |-> chars, rep |-> rep]

RunLen(r) == Len(r.chars) * r.rep

IsWsRun(r) == \A i \in 1..Len(r.chars) : r.chars[i] \in Whitespace

RECURSIVE TextLen(_)
\* String.prototype.length
TextLen(t) == IF t = << >> THEN 0 ELSE RunLen(Head(t)) + TextLen(Tail(t))

RECURSIVE TrimStart(_)
TrimStart(t) ==
    IF t = << >> THEN << >>
    ELSE IF IsWsRun(Head(t)) \/ RunLen(Head(t)) = 0 THEN TrimStart(Tail(t))
    ELSE t

RECURSIVE TrimEnd(_)
TrimEnd(t) ==
    IF t = << >> THEN << >>
    ELSE IF IsWsRun(t[Len(t)]) \/ RunLen(t[Len(t)]) = 0
         THEN TrimEnd(SubSeq(t, 1, Len(t) - 1))
    ELSE t

\* String.prototype.trim
Trim(t) == TrimEnd(TrimStart(t))

RECURSIVE Repeat(_, _)
Repeat(chars, k) == IF k <= 0 THEN << >> ELSE chars \o Repeat(chars, k - 1)

RECURSIVE Substring0(_, _)
\* t.substring(0, k) as a sequence of characters
Substring0(t, k) ==
    IF t = << >> \/ k <= 0 THEN << >>
    ELSE LET r == Head(t)
             unit == Len(r.chars)
             need == IF unit = 0 THEN 0 ELSE (k + unit - 1) \div unit
             reps == IF r.rep < need THEN r.rep ELSE need
             s == Repeat(r.chars, reps)
             cut == IF Len(s) > k THEN SubSeq(s, 1, k) ELSE s
         IN  cut \o Substring0(Tail(t), k - Len(cut))

Ws(n) == Run(<<" ">>, n)
Filler(n) == Run(<<"x">>, n)
Word(chars) == Run(chars, 1)

(***************************************************************************)
(* The DOM.  A node is an element: its tag (local name, lower case), its   *)
(* attributes, the text node it starts with, its element children, the     *)
(* contents of its content fragment (template elements only) and its       *)
(* parent (0: none).  Attribute values: class and id are character         *)
(* sequences, style is the parsed declaration, URL attributes are URL      *)
(* records, every other value is a string.                                 *)
(***************************************************************************)
NoAttrs == [a \in {} |-> ""]

Element(tag, attrs, text) ==
    [tag |-> tag, attrs |-> attrs, text |-> text,
     kids |-> << >>, content |-> << >>, parent |-> 0]

Body == 1

NextId(h) == CHOOSE i \in 1..(Cardinality(DOMAIN h) + 1) : i \notin DOMAIN h

\* Element.hasAttribute
HasAttribute(n, name) == name \in DOMAIN n.attrs

\* Element.getAttribute
GetAttribute(n, name) == IF HasAttribute(n, name) THEN n.attrs[name] ELSE NULL

\* Element.className (HTML elements: the class attribute, or "")
ClassName(n) == IF HasAttribute(n, "class") THEN n.attrs["class"] ELSE EmptyStr

\* Element.id
IdOf(n) == IF HasAttribute(n, "id") THEN n.attrs["id"] ELSE EmptyStr

\* el.tagName === T for an HTML element: tagName is the upper-cased local name
TagNameIs(n, lowerT) == n.tag = lowerT

RECURSIVE DescendantsOfList(_, _)
\* the element descendants of the nodes ks and the nodes themselves, in
\* document order (template contents are not children)
DescendantsOfList(h, ks) ==
    IF ks = << >> THEN << >>
    ELSE <<Head(ks)>> \o DescendantsOfList(h, h[Head(ks)].kids)
                      \o DescendantsOfList(h, Tail(ks))

\* the element descendants of id in document order
Descendants(h, id) == DescendantsOfList(h, h[id].kids)

\* el.querySelectorAll of a list of type selectors
QuerySelectorAll(h, id, tags) ==
    SelectSeq(Descendants(h, id), LAMBDA d : h[d].tag \in tags)

\* a selection that takes in the element itself, as el.matches would
QuerySelectorAllClassWithSelf(h, id, cls) ==
    SelectSeq(<<id>> \o Descendants(h, id), LAMBDA d : ClassListContains(ClassName(h[d]), cls))

\* el.querySelectorAll('.cls')
QuerySelectorAllClass(h, id, cls) ==
    SelectSeq(Descendants(h, id), LAMBDA d : ClassListContains(ClassName(h[d]), cls))

RECURSIVE TextContentOfList(_, _)
TextContentOfList(h, ks) ==
    IF ks = << >> THEN << >>
    ELSE h[Head(ks)].text \o TextContentOfList(h, h[Head(ks)].kids)
                          \o TextContentOfList(h, Tail(ks))

\* Node.textContent
TextContent(h, id) == h[id].text \o TextContentOfList(h, h[id].kids)

RECURSIVE CloneRec(_, _, _)
RECURSIVE CloneList(_, _, _)
\* a copy of the subtree at src, in fresh nodes, under parent par
CloneRec(h, src, par) ==
    LET id == NextId(h)
        h1 == (id :> [h[src] EXCEPT !.parent = par, !.kids = << >>, !.content = << >>]) @@ h
        r1 == CloneList(h1, h[src].kids, id)
        r2 == CloneList(r1.heap, h[src].content, 0)
    IN  [heap |-> [r2.heap EXCEPT ![id].kids = r1.ids, ![id].content = r2.ids],
         id |-> id]

CloneList(h, srcs, par) ==
    IF srcs = << >> THEN [heap |-> h, ids |-> << >>]
    ELSE LET c == CloneRec(h, Head(srcs), par)
             rest == CloneList(c.heap, Tail(srcs), par)
         IN  [heap |-> rest.heap, ids |-> <<c.id>> \o rest.ids]

\* a cloneNode that hands back the element itself
CloneNodeInPlace(h, src) == [heap |-> h, id |-> src]

\* element.cloneNode(true): the copy has no parent
CloneNode(h, src) == CloneRec(h, src, 0)

\* node.parentNode.removeChild(node), skipped when node has no parent
RemoveChild(h, node) ==
    LET p == h[node].parent
    IN  IF p = 0 THEN h
        ELSE [h EXCEPT ![p].kids = SelectSeq(h[p].kids, LAMBDA k : k # node),
                       ![node].parent = 0]

IndexOf(seq, x) == CHOOSE i \in 1..Len(seq) : seq[i] = x

\* Node.nextSibling among elements (0: none)
NextSibling(h, node) ==
    LET p == h[node].parent
    IN  IF p = 0 THEN 0
        ELSE LET i == IndexOf(h[p].kids, node)
             IN  IF i < Len(h[p].kids) THEN h[p].kids[i + 1] ELSE 0

RECURSIVE FollowingFrom(_, _, _)
\* TreeWalker.nextNode, second half: the next sibling of the nearest
\* ancestor-or-self below root that has one (0: none)
FollowingFrom(h, root, temporary) ==
    IF temporary = 0 \/ temporary = root THEN 0
    ELSE IF NextSibling(h, temporary) # 0 THEN NextSibling(h, temporary)
    ELSE FollowingFrom(h, root, h[temporary].parent)

\* TreeWalker.nextNode with NodeFilter.SHOW_ELEMENT, from currentNode cur
NextNode(h, root, cur) ==
    IF h[cur].kids # << >> THEN h[cur].kids[1]
    ELSE FollowingFrom(h, root, cur)

(***************************************************************************)
(* Numbers.  A score is an exact fraction num/den with den > 0.            *)
(***************************************************************************)
Frac(num, den) == [num |-> num, den |-> den]

RECURSIVE CmpFrac(_, _, _, _)
\* the sign of a/b - c/d for b, d > 0, by continued fractions (no products)
CmpFrac(a, b, c, d) ==
    LET qa == a \div b
        qc == c \div d
        ra == a % b
        rc == c % d
    IN  IF qa < qc THEN -1
        ELSE IF qa > qc THEN 1
        ELSE IF ra = 0 /\ rc = 0 THEN 0
        ELSE IF ra = 0 THEN -1
        ELSE IF rc = 0 THEN 1
        ELSE CmpFrac(d, rc, b, ra)

FracCmp(x, y) == CmpFrac(x.num, x.den, y.num, y.den)

FracLess(x, y) == FracCmp(x, y) < 0

(***************************************************************************)
(* Visibility filter and scorer.                                           *)
(***************************************************************************)
CANDIDATE_SELECTOR == {"article", "main", "div", "section"}

\* el.style.display / el.style.visibility: the parsed inline declaration
StyleProperty(n, prop) ==
    IF HasAttribute(n, "style") THEN n.attrs["style"][prop] ELSE ""

RECURSIVE isVisibleInherited(_, _)
\* a visibility that an element loses when an ancestor is hidden
isVisibleInherited(h, el) ==
    LET textLength == TextLen(Trim(TextContent(h, el)))
        hiddenByStyle ==
            \/ StyleProperty(h[el], "display") = "none"
            \/ StyleProperty(h[el], "visibility") = "hidden"
            \/ GetAttribute(h[el], "hidden") # NULL
        hiddenAbove ==
            /\ h[el].parent \notin {0, Body}
            /\ ~isVisibleInherited(h, h[el].parent)
    IN  ~hiddenByStyle /\ ~hiddenAbove /\ textLength > 0

isVisible(h, el) ==
    LET textLength == TextLen(Trim(TextContent(h, el)))
        hiddenByStyle ==
            \/ StyleProperty(h[el], "display") = "none"
            \/ StyleProperty(h[el], "visibility") = "hidden"
            \/ GetAttribute(h[el], "hidden") # NULL
    IN  ~hiddenByStyle /\ textLength > 0

\* test on a RegExp with the g flag: the search starts at lastIndex, and
\* lastIndex becomes the end of the match, or 0 when there is none
NavyTestGlobal(s, lastIndex) ==
    LET low == ToLowerCase(s)
        hits == {i \in (lastIndex + 1)..(Len(low) + 1) :
                     \E p \in NAVY_RE : MatchesAt(low, p, i)}
    IN  IF hits = {} THEN [match |-> FALSE, lastIndex |-> 0]
        ELSE LET i == CHOOSE x \in hits : \A y \in hits : x <= y
                 p == CHOOSE q \in NAVY_RE : MatchesAt(low, q, i)
             IN  [match |-> TRUE, lastIndex |-> i - 1 + Len(p)]

\* RegExp.prototype.test on NAVY_RE, a RegExp without the g flag: the
\* search starts at 0 whatever lastIndex is, and lastIndex is not written
NavyTest(s, lastIndex) ==
    [match |-> RegexTest(NAVY_RE, s), lastIndex |-> lastIndex]

RECURSIVE SumAnchorText(_, _)
\* the reduce over the anchors: the sum of anchor.textContent.length
SumAnchorText(h, anchors) ==
    IF anchors = << >> THEN 0
    ELSE TextLen(TextContent(h, Head(anchors))) + SumAnchorText(h, Tail(anchors))

\* a total whose densityBonus is paragraphCount * 1.5 throughout
TotalOfFlatDensity(textLength, paragraphCount, linkTextLength, headingBonus, semanticBoost, navPenalty) ==
    LET tm == IF textLength = 0 THEN 1 ELSE textLength
        link == IF textLength = 0 THEN 0 ELSE 4800 * linkTextLength
    IN  Frac(textLength * tm
             + (paragraphCount * 3 + headingBonus + semanticBoost - navPenalty) * 120 * tm
             + paragraphCount * 3 * 60 * tm
             - link,
             120 * tm)

\* total = textScore + paragraphCount * 3 + densityBonus + headingBonus
\*         + semanticBoost - linkPenalty - navPenalty, over the common
\* denominator 120 * textLength (120 when textLength is 0)
TotalOf(textLength, paragraphCount, linkTextLength, headingBonus, semanticBoost, navPenalty) ==
    LET tm == IF textLength = 0 THEN 1 ELSE textLength
        density2 == IF paragraphCount >= 5 THEN 20 ELSE paragraphCount * 3
        link == IF textLength = 0 THEN 0 ELSE 4800 * linkTextLength
    IN  Frac(textLength * tm
             + (paragraphCount * 3 + headingBonus + semanticBoost - navPenalty) * 120 * tm
             + density2 * 60 * tm
             - link,
             120 * tm)

scoreElement(h, el, lastIndex) ==
    LET text == Trim(TextContent(h, el))
        textLength == TextLen(text)
        paragraphCount == Len(QuerySelectorAll(h, el, {"p"}))
        linkTextLength == SumAnchorText(h, QuerySelectorAll(h, el, {"a"}))
        headingBonus == IF QuerySelectorAll(h, el, {"h1", "h2"}) # << >> THEN 10 ELSE 0
        semanticBoost ==
            IF TagNameIs(h[el], "article") \/ TagNameIs(h[el], "main") THEN 15 ELSE 0
        t1 == NavyTest(ClassName(h[el]), lastIndex)
        t2 == IF t1.match THEN t1 ELSE NavyTest(IdOf(h[el]), t1.lastIndex)
        navPenalty == IF t2.match THEN 20 ELSE 0
    IN  [el |-> el,
         textLength |-> textLength,
         paragraphCount |-> paragraphCount,
         linkTextLength |-> linkTextLength,
         headingBonus |-> headingBonus,
         semanticBoost |-> semanticBoost,
         navPenalty |-> navPenalty,
         total |-> TotalOf(textLength, paragraphCount, linkTextLength,
                           headingBonus, semanticBoost, navPenalty),
         lastIndex |-> t2.lastIndex]

RECURSIVE ScoreAll(_, _, _)
\* the scores of els after the score sc of the element before them
ScoreRest(h, els, sc) == <<sc>> \o ScoreAll(h, els, sc.lastIndex)

\* visibleElements.map(scoreElement), threading the RegExp's lastIndex
ScoreAll(h, els, lastIndex) ==
    IF els = << >> THEN << >>
    ELSE ScoreRest(h, Tail(els), scoreElement(h, Head(els), lastIndex))

RECURSIVE InsertSortedTiesFirst(_, _)
\* an insertion that puts c before the candidates it ties with
InsertSortedTiesFirst(sorted, c) ==
    IF sorted = << >> THEN <<c>>
    ELSE IF ~FracLess(c.total, Head(sorted).total)
         THEN <<c>> \o sorted
         ELSE <<Head(sorted)>> \o InsertSortedTiesFirst(Tail(sorted), c)

\* candidates.sort((a, b) => b.total - a.total): Array.prototype.sort is
\* stable, so c comes before every candidate it does not lose to
RECURSIVE InsertSorted(_, _)
InsertSorted(sorted, c) ==
    IF sorted = << >> THEN <<c>>
    ELSE IF FracLess(Head(sorted).total, c.total)
         THEN <<c>> \o sorted
         ELSE <<Head(sorted)>> \o InsertSorted(Tail(sorted), c)

RECURSIVE SortCandidates(_)
SortCandidates(cs) ==
    IF cs = << >> THEN << >>
    ELSE InsertSorted(SortCandidates(SubSeq(cs, 1, Len(cs) - 1)), cs[Len(cs)])

(***************************************************************************)
(* Confidence.  normalizeConfidence(score) = tanh(score / 80); the model   *)
(* keeps the score and decides confidence < t for a decimal t by           *)
(* score < 80 * atanh(t), the bound tabulated in units of 10^-7.           *)
(***************************************************************************)
AtanhCut == (0 :> 0) @@ (3000 :> 247615683) @@ (3071 :> 253872213) @@ (3500 :> 292355003) @@ (9000 :> 1177775592)

normalizeConfidence(total) == [tanhOf |-> total, over |-> 80, digits |-> "all"]

\* the comparison the other way round: confidence >= threshold
ConfidenceNotBelow(confidence, threshold) ==
    IF threshold = 0 THEN confidence.tanhOf.num >= 0
    ELSE CmpFrac(confidence.tanhOf.num, confidence.tanhOf.den,
                 AtanhCut[threshold], 10000000) > 0

\* confidence < threshold, threshold in units of 10^-4
ConfidenceBelow(confidence, threshold) ==
    IF threshold = 0 THEN confidence.tanhOf.num < 0
    ELSE CmpFrac(confidence.tanhOf.num, confidence.tanhOf.den,
                 AtanhCut[threshold], 10000000) <= 0

\* Number(confidence.toFixed(3))
ToFixed3(confidence) == [confidence EXCEPT !.digits = "3"]

\* for a threshold t, 80 * atanh of the least value that toFixed(3) rounds
\* to a multiple of 0.001 not below t: (ceil(1000 t) - 0.5) / 1000, in
\* units of 10^-7
RoundCut == (0 :> -400001) @@ (3000 :> 247176195) @@ (3071 :> 254225583) @@ (3500 :> 291899253) @@ (9000 :> 1175675298)

\* Number(confidence.toFixed(3)) < threshold, for an unrounded confidence
Rounded3Below(confidence, threshold) ==
    CmpFrac(confidence.tanhOf.num, confidence.tanhOf.den, RoundCut[threshold], 10000000) <= 0

(***************************************************************************)
(* URLs.  A URL string is [scheme, host, rooted, segs]: scheme "" makes it *)
(* relative, rooted says that the path starts with "/", and the empty      *)
(* string has no scheme, no host and no path.                              *)
(***************************************************************************)
Url(scheme, host, rooted, segs) ==
    [scheme |-> scheme, host |-> host, rooted |-> rooted, segs |-> segs]

EmptyUrl == Url("", "", FALSE, << >>)

\* the URL parser accepts an absolute URL of a special scheme only with a host
IsValidAbsolute(u) == u.scheme # "" /\ u.host # ""

\* new URL(value, base) throws
UrlThrows(value, base) ==
    \/ ~IsValidAbsolute(base)
    \/ value.scheme # "" /\ ~IsValidAbsolute(value)

\* new URL(value, base).toString(), when it does not throw: an absolute
\* value is serialised with its path (at least "/"), a relative one is
\* resolved against the base's origin and directory
ResolveUrl(value, base) ==
    IF value.scheme # "" THEN Url(value.scheme, value.host, TRUE, value.segs)
    ELSE IF value.rooted THEN Url(base.scheme, base.host, TRUE, value.segs)
    ELSE IF value.segs = << >> THEN Url(base.scheme, base.host, TRUE, base.segs)
    ELSE Url(base.scheme, base.host, TRUE,
             (IF base.segs = << >> THEN << >>
              ELSE SubSeq(base.segs, 1, Len(base.segs) - 1)) \o value.segs)

(***************************************************************************)
(* Sanitizer.                                                              *)
(***************************************************************************)
REMOVED_TAGS ==
    {"script", "style", "noscript", "iframe", "form", "input", "button",
     "select", "option", "textarea", "svg", "canvas"}

URL_ATTRS ==
    [img |-> <<"src">>, a |-> <<"href">>, video |-> <<"src", "poster">>,
     source |-> <<"src">>]

\* the properties every object literal inherits from Object.prototype whose
\* names a lower-cased tag name can spell
ObjectPrototypeKeys == {"constructor"}

\* URL_ATTRS[tag]: an own property is an array, an inherited one is not,
\* anything else is undefined
UrlAttrsLookup(tag) ==
    IF tag \in DOMAIN URL_ATTRS THEN [defined |-> TRUE, array |-> TRUE, items |-> URL_ATTRS[tag]]
    ELSE IF tag \in ObjectPrototypeKeys THEN [defined |-> TRUE, array |-> FALSE, items |-> << >>]
    ELSE [defined |-> FALSE, array |-> FALSE, items |-> << >>]

\* the spelling of the attribute names of the model
AttrSpelling ==
    [class |-> <<"c", "l", "a", "s", "s">>,
     id |-> <<"i", "d">>,
     style |-> <<"s", "t", "y", "l", "e">>,
     hidden |-> <<"h", "i", "d", "d", "e", "n">>,
     onclick |-> <<"o", "n", "c", "l", "i", "c", "k">>,
     onerror |-> <<"o", "n", "e", "r", "r", "o", "r">>,
     src |-> <<"s", "r", "c">>,
     href |-> <<"h", "r", "e", "f">>,
     poster |-> <<"p", "o", "s", "t", "e", "r">>,
     section |-> <<"s", "e", "c", "t", "i", "o", "n">>]
    @@ ("data-location" :> <<"d", "a", "t", "a", "-", "l", "o", "c", "a", "t", "i", "o", "n">>)
    @@ ("aria-label" :> <<"a", "r", "i", "a", "-", "l", "a", "b", "e", "l">>)
    @@ ("data-ad" :> <<"d", "a", "t", "a", "-", "a", "d">>)
    @@ ("data-ad-callout" :> <<"d", "a", "t", "a", "-", "a", "d", "-", "c", "a", "l", "l", "o", "u", "t">>)
    @@ ("data-cy" :> <<"d", "a", "t", "a", "-", "c", "y">>)
    @@ ("data-theme" :> <<"d", "a", "t", "a", "-", "t", "h", "e", "m", "e">>)
    @@ ("data-video-location" :> <<"d", "a", "t", "a", "-", "v", "i", "d", "e", "o", "-", "l", "o", "c", "a", "t", "i", "o", "n">>)
    @@ ("data-video-article-placement" :> <<"d", "a", "t", "a", "-", "v", "i", "d", "e", "o", "-", "a", "r", "t", "i", "c", "l", "e", "-", "p", "l", "a", "c", "e", "m", "e", "n", "t">>)

\* attr.name.startsWith('on') || attr.name === 'style'
IsStrippedAttr(name) ==
    StartsWith(AttrSpelling[name], <<"o", "n">>) \/ name = "style"

\* a strip that removes one stripped attribute per pass
StripFirstAttr(attrs) ==
    LET stripped == {x \in DOMAIN attrs : IsStrippedAttr(x)}
    IN  IF stripped = {} THEN attrs
        ELSE LET first == CHOOSE x \in stripped : TRUE
             IN  [a \in DOMAIN attrs \ {first} |-> attrs[a]]

\* Array.from(el.attributes).forEach(... el.removeAttribute(attr.name))
StripAttrs(attrs) ==
    [a \in {x \in DOMAIN attrs : ~IsStrippedAttr(x)} |-> attrs[a]]

RECURSIVE NormalizeUrlAttrs(_, _, _)
\* attrs.forEach: each URL attribute that is present and non-empty is set
\* to its resolution, unless new URL throws
NormalizeUrlAttrs(attrs, names, baseUrl) ==
    IF names = << >> THEN attrs
    ELSE LET a == Head(names)
             next ==
                 IF a \in DOMAIN attrs /\ attrs[a] # EmptyUrl /\ ~UrlThrows(attrs[a], baseUrl)
                 THEN [attrs EXCEPT ![a] = ResolveUrl(attrs[a], baseUrl)]
                 ELSE attrs
         IN  NormalizeUrlAttrs(next, Tail(names), baseUrl)

RECURSIVE SanitizeWalk(_, _, _, _, _)
\* the rest of the loop body for el, with its attributes stripped and the
\* value attrs of URL_ATTRS[tag]
NormalizeElement(h, root, el, toRemove, baseUrl, stripped, attrs) ==
    IF ~attrs.defined
    THEN SanitizeWalk([h EXCEPT ![el].attrs = stripped], root, el, toRemove, baseUrl)
    ELSE IF ~attrs.array
         THEN [heap |-> [h EXCEPT ![el].attrs = stripped], toRemove |-> toRemove,
               threw |-> TRUE]
    ELSE SanitizeWalk(
             [h EXCEPT ![el].attrs = NormalizeUrlAttrs(stripped, attrs.items, baseUrl)],
             root, el, toRemove, baseUrl)

\* one pass of the loop body, for the element el that nextNode returned
SanitizeElement(h, root, el, toRemove, baseUrl) ==
    IF el = 0 THEN [heap |-> h, toRemove |-> toRemove, threw |-> FALSE]
    ELSE IF h[el].tag \in REMOVED_TAGS
         THEN SanitizeWalk(h, root, el, Append(toRemove, el), baseUrl)
    ELSE NormalizeElement(h, root, el, toRemove, baseUrl,
                          StripAttrs(h[el].attrs), UrlAttrsLookup(h[el].tag))

\* the while (walker.nextNode()) loop of sanitizeClone from currentNode cur
SanitizeWalk(h, root, cur, toRemove, baseUrl) ==
    SanitizeElement(h, root, NextNode(h, root, cur), toRemove, baseUrl)

RECURSIVE RemoveAll(_, _)
\* nodes.forEach((node) => node.parentNode?.removeChild(node))
RemoveAll(h, nodes) ==
    IF nodes = << >> THEN h ELSE RemoveAll(RemoveChild(h, Head(nodes)), Tail(nodes))

\* after the loop w: the removals, unless the loop threw
RemoveCollected(w, clone) ==
    IF w.threw THEN [heap |-> w.heap, clone |-> clone, threw |-> TRUE]
    ELSE [heap |-> RemoveAll(w.heap, w.toRemove), clone |-> clone, threw |-> FALSE]

\* the walk over the clone c and the removals
SanitizeCloned(c, baseUrl) ==
    RemoveCollected(SanitizeWalk(c.heap, c.id, c.id, << >>, baseUrl), c.id)

\* sanitizeClone(element, baseUrl): the heap after, the clone, whether it threw
sanitizeClone(h, element, baseUrl) == SanitizeCloned(CloneNode(h, element), baseUrl)

(***************************************************************************)
(* Cleanup classifier.                                                     *)
(***************************************************************************)
isNavigation(h, el) ==
    LET n == h[el]
        className == ClassName(n)
        id == IdOf(n)
        section == GetAttribute(n, "section")
        dataLocation == GetAttribute(n, "data-location")
        ariaLabel == GetAttribute(n, "aria-label")
    IN  \/ TagNameIs(n, "header") /\ (id = S_siteNav \/ section = "nav")
        \/ TagNameIs(n, "nav") /\ (section = "top" \/ ariaLabel = "site")
        \/ dataLocation = "HEADER"
        \/ section = "nav" /\ ~TagNameIs(n, "article") /\ ~TagNameIs(n, "main")
        \/ RegexTest(navPatterns, className)
        \/ RegexTest(navPatterns, id)

isFooter(h, el) ==
    LET n == h[el]
    IN  \/ TagNameIs(n, "footer")
        \/ GetAttribute(n, "data-location") = "FOOTER"
        \/ RegexTest(footerPatterns, ClassName(n))
        \/ RegexTest(footerPatterns, IdOf(n))

\* a heading heuristic that does not compare the links with twice the paragraphs
isRelatedContentFewerParagraphs(h, el) ==
    LET className == ClassName(h[el])
        text == TextContent(h, el)
        linkCount == Len(QuerySelectorAll(h, el, {"a"}))
        paragraphCount == Len(QuerySelectorAll(h, el, {"p"}))
        hasRelatedHeading == RegexTestAnchored(relatedHeadings, Substring0(Trim(text), 50))
    IN  \/ RegexTest(relatedPatterns, className)
        \/ /\ hasRelatedHeading
           /\ linkCount > 5
           /\ paragraphCount < linkCount

isRelatedContent(h, el) ==
    LET className == ClassName(h[el])
        text == TextContent(h, el)
        linkCount == Len(QuerySelectorAll(h, el, {"a"}))
        paragraphCount == Len(QuerySelectorAll(h, el, {"p"}))
        hasRelatedHeading == RegexTestAnchored(relatedHeadings, Substring0(Trim(text), 50))
    IN  \/ RegexTest(relatedPatterns, className)
        \/ /\ hasRelatedHeading
           /\ linkCount > 5
           /\ paragraphCount < linkCount
           /\ linkCount > paragraphCount * 2

isVideoPlayer(h, el) ==
    LET n == h[el]
        className == ClassName(n)
    IN  \/ GetAttribute(n, "data-video-location") = "MODAL"
        \/ GetAttribute(n, "data-video-article-placement") = "Watch and Read"
        \/ Includes(className, S_avStickyVideo)
        \/ Includes(className, S_CnetAvStickyVideo)
        \/ n.tag = "video-js"
        \/ /\ Includes(className, S_vjs)
           /\ ~Includes(className, S_avVideo)
           /\ ~Includes(className, S_avStickyVideo)

\* if (dataAd || dataAdCallout): a missing attribute (null) and the empty
\* string are both falsy
isAdContainer(h, el) ==
    LET n == h[el]
        dataAd == GetAttribute(n, "data-ad")
        dataAdCallout == GetAttribute(n, "data-ad-callout")
    IN  \/ dataAd # NULL /\ dataAd # ""
        \/ dataAdCallout # NULL /\ dataAdCallout # ""
        \/ RegexTest(adPatterns, ClassName(n))

isArticleMeta(h, el) ==
    LET className == ClassName(h[el])
    IN  \/ Includes(className, S_metaContainer)
        \/ Includes(className, S_meta)
        \/ Includes(className, S_topicBreadcrumbs)

isAuthorCard(h, el) ==
    LET n == h[el]
        className == ClassName(n)
    IN  \/ Includes(className, S_globalAuthorImage)
        \/ Includes(className, S_globalAuthorCard)
        \/ GetAttribute(n, "section") = "authorCard"
        \/ GetAttribute(n, "data-cy") = "globalAuthorImage"

isScreenReaderTitle(h, el) ==
    \/ Includes(ClassName(h[el]), S_srTitle)
    \/ ClassListContains(ClassName(h[el]), S_srTitle)

\* the condition of Step 3
MatchesNonContent(h, el) ==
    \/ isNavigation(h, el)
    \/ isFooter(h, el)
    \/ isRelatedContent(h, el)
    \/ isVideoPlayer(h, el)
    \/ isAdContainer(h, el)
    \/ isArticleMeta(h, el)
    \/ isAuthorCard(h, el)
    \/ isScreenReaderTitle(h, el)

RECURSIVE CleanupWalk(_, _, _, _)
\* one pass of the loop body, for the element el that nextNode returned
CleanupElement(h, element, el, toRemove) ==
    IF el = 0 THEN toRemove
    ELSE IF el = element THEN CleanupWalk(h, element, el, toRemove)
    ELSE IF MatchesNonContent(h, el)
         THEN CleanupWalk(h, element, el, Append(toRemove, el))
    ELSE CleanupWalk(h, element, el, toRemove)

\* Step 2 and 3: the while (walker.nextNode()) loop from currentNode cur
CleanupWalk(h, element, cur, toRemove) ==
    CleanupElement(h, element, NextNode(h, element, cur), toRemove)

Reverse(seq) == [i \in 1..Len(seq) |-> seq[Len(seq) + 1 - i]]

\* Steps 2 to 4, on the heap h that Step 1 left
RemoveNonContent(h, element) ==
    RemoveAll(h, Reverse(CleanupWalk(h, element, element, << >>)))

\* cleanupExtractedContent(element): the heap after
cleanupExtractedContent(h, element) ==
    RemoveNonContent(RemoveAll(h, QuerySelectorAllClass(h, element, S_srTitle)), element)

(***************************************************************************)
(* Serialisation.  innerHTML of an element is its text followed by its     *)
(* children, each with its tag, attributes and own innerHTML; a template   *)
(* element serialises the contents of its content fragment.                *)
(***************************************************************************)
RECURSIVE InnerHTML(_, _)
RECURSIVE OuterHTMLs(_, _)
InnerHTML(h, id) ==
    [text |-> h[id].text,
     kids |-> OuterHTMLs(h, IF h[id].tag = "template" THEN h[id].content ELSE h[id].kids)]

OuterHTMLs(h, ks) ==
    IF ks = << >> THEN << >>
    ELSE <<[tag |-> h[Head(ks)].tag, attrs |-> h[Head(ks)].attrs,
            inner |-> InnerHTML(h, Head(ks))]>> \o OuterHTMLs(h, Tail(ks))

\* an element with its tag, attributes and contents
OuterHTML(h, id) == [tag |-> h[id].tag, attrs |-> h[id].attrs, inner |-> InnerHTML(h, id)]

\* String.prototype.trim on a serialisation: leading whitespace belongs to
\* the leading text, trailing whitespace to it only when nothing follows
TrimHTML(html) ==
    [html EXCEPT !.text = IF html.kids = << >> THEN Trim(html.text)
                          ELSE TrimStart(html.text)]

\* !html: the empty string
IsEmptyHTML(html) == html.kids = << >> /\ TextLen(html.text) = 0

(***************************************************************************)
(* Orchestrator.  An optional value is << >> (undefined) or <<v>>.         *)
(***************************************************************************)
None == << >>
Some(v) == <<v>>

DEFAULT_THRESHOLD == 3500       \* options.threshold ?? 0.35, in units of 10^-4

\* document.location.href
DocumentLocation == Url("https", "example.com", TRUE, <<"news", "page">>)

Unavailable(reason, confidence) ==
    [outcome |-> "returned", unavailable |-> TRUE, reason |-> reason,
     confidence |-> confidence, html |-> None, text |-> None]

Extracted(html, text, confidence) ==
    [outcome |-> "returned", unavailable |-> FALSE, reason |-> "ok",
     confidence |-> Some(confidence), html |-> Some(html), text |-> Some(text)]

Threw(error) ==
    [outcome |-> "threw", unavailable |-> FALSE, reason |-> error,
     confidence |-> None, html |-> None, text |-> None]

\* what a call leaves behind: the heap, the RegExp state, the result, and
\* for the properties the winning candidate and its clone (0: none)
CallRecord(h, lastIndex, result, top, clone) ==
    [heap |-> h, lastIndex |-> lastIndex, result |-> result, top |-> top,
     clone |-> clone]

\* a filter that asks for both the length and the paragraphs
IsViableBoth(c) == c.textLength >= MIN_TEXT_LENGTH /\ c.paragraphCount >= 2

\* c.textLength >= MIN_TEXT_LENGTH || c.paragraphCount >= 2
IsViable(c) == c.textLength >= MIN_TEXT_LENGTH \/ c.paragraphCount >= 2

\* Step 4 on the scored candidates, and the RegExp state the scoring left
FilterCandidates(scoredCandidates, lastIndex) ==
    [candidates |-> SelectSeq(scoredCandidates, IsViable),
     lastIndex |->
         IF scoredCandidates = << >> THEN lastIndex
         ELSE scoredCandidates[Len(scoredCandidates)].lastIndex]

\* Steps 1 to 4: the scored candidates that meet the minimum requirements
ViableCandidates(h, lastIndex) ==
    FilterCandidates(
        ScoreAll(h,
                 SelectSeq(QuerySelectorAll(h, Body, CANDIDATE_SELECTOR),
                           LAMBDA el : isVisible(h, el)),
                 lastIndex),
        lastIndex)

\* options.threshold || 0.35: a threshold of 0 falls back to the default
ThresholdOrDefault(options) ==
    IF options.threshold = None \/ options.threshold = Some(0)
    THEN DEFAULT_THRESHOLD ELSE options.threshold[1]

\* options.threshold ?? 0.35
ThresholdOf(options) ==
    IF options.threshold = None THEN DEFAULT_THRESHOLD ELSE options.threshold[1]

\* options.baseUrl ?? document.location?.href ?? 'http://localhost/'
BaseUrlOf(options) ==
    IF options.baseUrl = None THEN DocumentLocation ELSE options.baseUrl[1]

\* a final validation that accepts everything
NeverTooSmall(html, text) == FALSE

\* !html || text.length < MIN_TEXT_LENGTH
TooSmall(html, text) == IsEmptyHTML(html) \/ TextLen(text) < MIN_TEXT_LENGTH

\* the final validation and the result, for the cleaned clone's html and text
Validate(h, lastIndex, top, confidence, clone, html, text) ==
    IF TooSmall(html, text)
    THEN CallRecord(h, lastIndex,
                    Unavailable("Extracted content too small", Some(confidence)),
                    top.el, clone)
    ELSE CallRecord(h, lastIndex, Extracted(html, text, ToFixed3(confidence)),
                    top.el, clone)

\* html and text of the cleaned clone, then the final validation
Serialise(h, lastIndex, top, confidence, clone) ==
    Validate(h, lastIndex, top, confidence, clone,
             TrimHTML(InnerHTML(h, clone)), Trim(TextContent(h, clone)))

\* cleanup of the sanitized clone s, unless sanitizeClone threw
CleanupAndFinish(s, lastIndex, top, confidence) ==
    IF s.threw
    THEN CallRecord(s.heap, lastIndex, Threw("TypeError"), top.el, s.clone)
    ELSE Serialise(cleanupExtractedContent(s.heap, s.clone), lastIndex, top,
                   confidence, s.clone)

\* Step 8 onwards, for the winning candidate top
SanitizeAndFinish(h, lastIndex, top, confidence, baseUrl) ==
    CleanupAndFinish(sanitizeClone(h, top.el, baseUrl), lastIndex, top, confidence)

\* Step 7 onwards, for the winning candidate top and its confidence
GateOnConfidence(h, lastIndex, top, confidence, threshold, baseUrl) ==
    IF ConfidenceBelow(confidence, threshold)
    THEN CallRecord(h, lastIndex,
                    Unavailable("Confidence below threshold", Some(confidence)),
                    top.el, 0)
    ELSE SanitizeAndFinish(h, lastIndex, top, confidence, baseUrl)

\* Step 6 onwards, for the sorted candidates
PickTop(h, lastIndex, top, threshold, baseUrl) ==
    GateOnConfidence(h, lastIndex, top, normalizeConfidence(top.total), threshold, baseUrl)

\* a selection that ranks the candidates with enough text before the others
SelectLongAndFinish(h, v, threshold, baseUrl) ==
    IF v.candidates = << >>
    THEN CallRecord(h, v.lastIndex, Unavailable("No viable candidates found", None), 0, 0)
    ELSE PickTop(h, v.lastIndex,
                 (SortCandidates(SelectSeq(v.candidates, LAMBDA c : c.textLength >= MIN_TEXT_LENGTH))
                  \o SortCandidates(v.candidates))[1],
                 threshold, baseUrl)

\* Step 5 onwards, for the viable candidates v
SelectAndFinish(h, v, threshold, baseUrl) ==
    IF v.candidates = << >>
    THEN CallRecord(h, v.lastIndex, Unavailable("No viable candidates found", None), 0, 0)
    ELSE PickTop(h, v.lastIndex, SortCandidates(v.candidates)[1], threshold, baseUrl)

extractArticle(h, options, lastIndex) ==
    SelectAndFinish(h, ViableCandidates(h, lastIndex), ThresholdOf(options),
                    BaseUrlOf(options))

(***************************************************************************)
(* The pages of the model: elements are added one at a time, each of one   *)
(* of the kinds below, under body or under an element that takes children. *)
(***************************************************************************)
RelativeLink == Url("", "", TRUE, <<"a">>)

Kinds ==
    { Element("article", NoAttrs, << >>),
      Element("div", NoAttrs, << >>),
      Element("section", NoAttrs, <<Filler(200), Ws(1)>>),
      Element("div", [class |-> C_sidebarNav, onclick |-> "go()",
                      style |-> [display |-> "", visibility |-> ""]], << >>),
      Element("div", [style |-> [display |-> "none", visibility |-> ""]], << >>),
      Element("form", NoAttrs, << >>),
      Element("footer", NoAttrs, << >>),
      Element("template", NoAttrs, << >>),
      Element("p", NoAttrs, <<Ws(1), Filler(150), Ws(1)>>),
      Element("p", NoAttrs, <<Filler(20)>>),
      Element("a", [href |-> RelativeLink, onclick |-> "go()"], <<Ws(1), Word(T_Link), Ws(1)>>),
      Element("h1", NoAttrs, <<Word(T_Title)>>),
      Element("script", NoAttrs, <<Word(T_evil)>>),
      Element("constructor", NoAttrs, << >>) }

\* the elements of the model that take children
ContainerTags == {"body", "article", "div", "section", "form", "footer", "template"}

NoOptions == [threshold |-> None, baseUrl |-> None]

OtherBase == Url("https", "x.com", TRUE, << >>)

InvalidBase == Url("", "", FALSE, <<"nowhere">>)

OptionsSet ==
    [threshold : {None, Some(0), Some(3000)}, baseUrl : {None, Some(OtherBase)}]

NoCall ==
    [op |-> "none", options |-> NoOptions,
     result |-> [Threw("none") EXCEPT !.outcome = "none"],
     top |-> 0, clone |-> 0, n |-> 0, repeat |-> FALSE]

EmptyPage == (Body :> Element("body", NoAttrs, << >>))

NoCalls == [o \in {} |-> Threw("none")]

\* let active = false; let snapshot = null; let state = null
ReaderOff == [active |-> FALSE, snapshot |-> None, state |-> None]

\* an <html> element without attributes, in a document titled title
HtmlElement(title) == [style |-> None, title |-> title]

\* a document: its name, its nodes, its <html> element and its keydown listeners
Document(name, h, html, n) ==
    [name |-> name, heap |-> h, documentElement |-> html, listeners |-> n]

\* the second document, while there is none: an empty page
NoOther == Document("B", EmptyPage, HtmlElement(EmptyStr), 0)

\* the reader module as loaded, on a page without a title
InitReaderOff ==
    /\ reader = ReaderOff
    /\ documentElement = HtmlElement(EmptyStr)
    /\ listeners = 0
    /\ other = NoOther

Init ==
    /\ heap = EmptyPage
    /\ phase = "build"
    /\ last = NoCall
    /\ before = EmptyPage
    /\ calls = NoCalls
    /\ navyLastIndex = 0
    /\ InitReaderOff

\* the parser appends an element of the given kind to parent (to the
\* content fragment of a template); the children of body are containers
AddChild(parent, kind) ==
    /\ phase = "build"
    /\ Cardinality(DOMAIN heap) <= MaxNodes
    /\ heap[parent].tag \in ContainerTags
    /\ parent = Body => kind.tag \in ContainerTags
    /\ LET id == NextId(heap)
       IN  heap' =
             IF heap[parent].tag = "template"
             THEN (id :> kind) @@ [heap EXCEPT ![parent].content = Append(@, id)]
             ELSE (id :> [kind EXCEPT !.parent = parent])
                  @@ [heap EXCEPT ![parent].kids = Append(@, id)]
    /\ UNCHANGED <<phase, last, before, calls, navyLastIndex>>
    /\ UNCHANGED readerVars

\* the state after a call of extractArticle that left the record r
Returned(options, r) ==
    /\ heap' = r.heap
    /\ navyLastIndex' = r.lastIndex
    /\ last' = [op |-> "extract", options |-> options, result |-> r.result,
                top |-> r.top, clone |-> r.clone, n |-> last.n + 1,
                repeat |-> options \in DOMAIN calls]
    /\ calls' = IF options \in DOMAIN calls THEN calls
                ELSE (options :> r.result) @@ calls

\* a caller runs extractArticle(document, options)
Extract(options) ==
    /\ last.n < MaxCalls
    /\ last.op \in {"none", "extract"}
    /\ Returned(options, extractArticle(heap, options, navyLastIndex))
    /\ before' = heap
    /\ phase' = "called"
    /\ UNCHANGED readerVars

\* the page is left for a new one; the module stays loaded
NewDocument ==
    /\ phase = "called"
    /\ heap' = EmptyPage
    /\ phase' = "build"
    /\ last' = NoCall
    /\ before' = EmptyPage
    /\ calls' = NoCalls
    /\ UNCHANGED navyLastIndex
    /\ UNCHANGED readerVars

\* the state after a call of sanitizeClone that left the record r
Sanitized(element, baseUrl, r) ==
    /\ heap' = r.heap
    /\ last' = [op |-> "sanitize",
                options |-> [threshold |-> None, baseUrl |-> Some(baseUrl)],
                result |-> IF r.threw THEN Threw("TypeError")
                           ELSE Unavailable("sanitized", None),
                top |-> element, clone |-> r.clone, n |-> last.n + 1,
                repeat |-> /\ last.op = "sanitize"
                           /\ last.options.baseUrl = Some(baseUrl)]

\* a caller runs sanitizeClone(element, baseUrl) on an element of the page,
\* or again on the clone the call before returned
Sanitize(element, baseUrl) ==
    /\ last.n < MaxCalls
    /\ \/ phase = "build" /\ element # Body
       \/ phase = "called" /\ last.op = "sanitize" /\ element = last.clone
                           /\ last.result.outcome = "returned"
    /\ Sanitized(element, baseUrl, sanitizeClone(heap, element, baseUrl))
    /\ before' = heap
    /\ phase' = "called"
    /\ UNCHANGED <<calls, navyLastIndex>>
    /\ UNCHANGED readerVars

Next ==
    \/ \E parent \in DOMAIN heap, kind \in Kinds : AddChild(parent, kind)
    \/ \E options \in OptionsSet : Extract(options)
    \/ NewDocument

Spec == Init /\ [][Next]_vars

NextSanitize ==
    \/ \E parent \in DOMAIN heap, kind \in Kinds : AddChild(parent, kind)
    \/ \E element \in DOMAIN heap, baseUrl \in {DocumentLocation, InvalidBase} :
           Sanitize(element, baseUrl)
    \/ NewDocument

SpecSanitize == Init /\ [][NextSanitize]_vars

(***************************************************************************)
(* Larger pages, given whole, and the parts of the engine applied to the   *)
(* elements of a page one at a time.                                       *)
(***************************************************************************)
\* an element of a page given whole
Node(tag, attrs, text, parent, kids) ==
    [tag |-> tag, attrs |-> attrs, text |-> text,
     kids |-> kids, content |-> << >>, parent |-> parent]

AbsoluteNoPath == Url("https", "cdn.com", FALSE, << >>)

AbsoluteWithPath == Url("https", "cdn.com", TRUE, <<"poster.png">>)

MalformedUrl == Url("http", "", FALSE, << >>)

RelativeImage == Url("", "", FALSE, <<"images", "pic.png">>)

\* <article><p>...</p><a href="https://cdn.com">Link</a><img src="images/pic.png" data-cy="pic">
\* <video src="http://" poster="https://cdn.com/poster.png"></video><source src=""></article>
UrlPage ==
    << Node("body", NoAttrs, << >>, 0, <<2>>),
       Node("article", NoAttrs, << >>, 1, <<3, 4, 5, 6, 7>>),
       Node("p", NoAttrs, <<Filler(150)>>, 2, << >>),
       Node("a", [href |-> AbsoluteNoPath], <<Word(T_Link)>>, 2, << >>),
       Node("img", [src |-> RelativeImage] @@ ("data-cy" :> "pic"), << >>, 2, << >>),
       Node("video", [src |-> MalformedUrl, poster |-> AbsoluteWithPath], << >>, 2, << >>),
       Node("source", [src |-> EmptyUrl], << >>, 2, << >>) >>

C_rootClasses == <<"s", "i", "t", "e", "-", "f", "o", "o", "t", "e", "r", " ", "s", "r", "-", "t", "i", "t", "l", "e">>

T_Related == <<"R", "e", "l", "a", "t", "e", "d">>

\* <div section="nav" class="site-footer sr-title"><p>...</p>
\* <footer><p>...</p></footer><h1 class="sr-title">Title</h1></div>
RootPage ==
    << Node("body", NoAttrs, << >>, 0, <<2>>),
       Node("div", [section |-> "nav", class |-> C_rootClasses], << >>, 1, <<3, 4, 6>>),
       Node("p", NoAttrs, <<Filler(150)>>, 2, << >>),
       Node("footer", NoAttrs, << >>, 2, <<5>>),
       Node("p", NoAttrs, <<Filler(20)>>, 4, << >>),
       Node("h1", [class |-> S_srTitle], <<Word(T_Title)>>, 2, << >>) >>

\* <article><p>...</p><div><footer>xx...</footer><h2>Related</h2>
\* <a>Link</a> (six of them)</div></article>
RelatedPage ==
    << Node("body", NoAttrs, << >>, 0, <<2>>),
       Node("article", NoAttrs, << >>, 1, <<3, 4>>),
       Node("p", NoAttrs, <<Filler(150)>>, 2, << >>),
       Node("div", NoAttrs, << >>, 2, <<5, 6, 7, 8, 9, 10, 11, 12>>),
       Node("footer", NoAttrs, <<Filler(20)>>, 4, << >>),
       Node("h2", NoAttrs, <<Word(T_Related)>>, 4, << >>),
       Node("a", NoAttrs, <<Word(T_Link)>>, 4, << >>),
       Node("a", NoAttrs, <<Word(T_Link)>>, 4, << >>),
       Node("a", NoAttrs, <<Word(T_Link)>>, 4, << >>),
       Node("a", NoAttrs, <<Word(T_Link)>>, 4, << >>),
       Node("a", NoAttrs, <<Word(T_Link)>>, 4, << >>),
       Node("a", NoAttrs, <<Word(T_Link)>>, 4, << >>) >>

C_TopMenu == <<"T", "o", "p", "M", "e", "n", "u">>

\* <main id="TopMenu"><p>..</p> (five of them) <h2>Title</h2><a>Link</a></main>
ScorePage ==
    << Node("body", NoAttrs, << >>, 0, <<2>>),
       Node("main", [id |-> C_TopMenu], << >>, 1, <<3, 4, 5, 6, 7, 8, 9>>),
       Node("p", NoAttrs, <<Filler(30)>>, 2, << >>),
       Node("p", NoAttrs, <<Filler(30)>>, 2, << >>),
       Node("p", NoAttrs, <<Filler(30)>>, 2, << >>),
       Node("p", NoAttrs, <<Filler(30)>>, 2, << >>),
       Node("p", NoAttrs, <<Filler(30)>>, 2, << >>),
       Node("h2", NoAttrs, <<Word(T_Title)>>, 2, << >>),
       Node("a", NoAttrs, <<Word(T_Link)>>, 2, << >>) >>

\* <div hidden><section style="visibility:hidden">...</section>
\* <article><div style="display:none"><p>...</p><p>...</p></div></article></div>
HiddenPage ==
    << Node("body", NoAttrs, << >>, 0, <<2>>),
       Node("div", [hidden |-> ""], << >>, 1, <<3, 4>>),
       Node("section", [style |-> [display |-> "", visibility |-> "hidden"]], <<Filler(200)>>, 2, << >>),
       Node("article", NoAttrs, << >>, 2, <<5>>),
       Node("div", [style |-> [display |-> "none", visibility |-> ""]], << >>, 4, <<6, 7>>),
       Node("p", NoAttrs, <<Filler(150)>>, 5, << >>),
       Node("p", NoAttrs, <<Filler(20)>>, 5, << >>) >>

C_ArticleLinkBlock == <<"x", " ", "A", "r", "t", "i", "c", "l", "e", "L", "i", "n", "k", "B", "l", "o", "c", "k", "s">>

T_RELATED == <<"R", "E", "L", "A", "T", "E", "D", " ", "s", "t", "o", "r", "i", "e", "s">>

T_Guides == <<"G", "u", "i", "d", "e", "s">>

T_Unrelated == <<"U", "n", "r", "e", "l", "a", "t", "e", "d">>

\* a block of links under the element at id: its text, then n anchors and
\* m paragraphs at the ids from first on
LinkBlock(id, attrs, text, first, n, m) ==
    <<Node("div", attrs, text, 2, [i \in 1..(n + m) |-> first + i - 1])>>
    \o [i \in 1..n |-> Node("a", NoAttrs, <<Word(T_Link)>>, id, << >>)]
    \o [i \in 1..m |-> Node("p", NoAttrs, <<Filler(20)>>, id, << >>)]

\* <section> with blocks of links: "  RELATED stories" with 6 links; with 5
\* links; with 6 links and 3 paragraphs; "Guides" with 7 links and 3
\* paragraphs; "Unrelated" with 6 links; class "x ArticleLinkBlocks"
\* without links
LinksPage ==
    << Node("body", NoAttrs, << >>, 0, <<2>>),
       Node("section", NoAttrs, << >>, 1, <<3, 10, 16, 26, 37, 44>>) >>
    \o LinkBlock(3, NoAttrs, <<Ws(2), Word(T_RELATED)>>, 4, 6, 0)
    \o LinkBlock(10, NoAttrs, <<Word(T_Related)>>, 11, 5, 0)
    \o LinkBlock(16, NoAttrs, <<Word(T_Related)>>, 17, 6, 3)
    \o LinkBlock(26, NoAttrs, <<Word(T_Guides), Ws(1)>>, 27, 7, 3)
    \o LinkBlock(37, NoAttrs, <<Word(T_Unrelated)>>, 38, 6, 0)
    \o LinkBlock(44, [class |-> C_ArticleLinkBlock], <<Word(T_Link)>>, 45, 0, 0)

\* <article><p>...</p><div data-ad>xx</div><div data-ad-callout="true">xx</div>
\* <div data-ad-callout>xx</div></article>
AdPage ==
    << Node("body", NoAttrs, << >>, 0, <<2>>),
       Node("article", NoAttrs, << >>, 1, <<3, 4, 5, 6>>),
       Node("p", NoAttrs, <<Filler(150)>>, 2, << >>),
       Node("div", ("data-ad" :> ""), <<Filler(20)>>, 2, << >>),
       Node("div", ("data-ad-callout" :> "true"), <<Filler(20)>>, 2, << >>),
       Node("div", ("data-ad-callout" :> ""), <<Filler(20)>>, 2, << >>) >>

\* <article><p>..</p><p>..</p></article><section>...</section>
ShortPage ==
    << Node("body", NoAttrs, << >>, 0, <<2, 5>>),
       Node("article", NoAttrs, << >>, 1, <<3, 4>>),
       Node("p", NoAttrs, <<Filler(20)>>, 2, << >>),
       Node("p", NoAttrs, <<Filler(20)>>, 2, << >>),
       Node("section", NoAttrs, <<Filler(200)>>, 1, << >>) >>

SeedPages == {EmptyPage, UrlPage, RootPage, RelatedPage, ScorePage, HiddenPage, LinksPage, AdPage, ShortPage}

\* isRelatedContent(el) and isAdContainer(el) of the cleanup predicates
\* module, on an element of the page
Classify(el) ==
    /\ phase = "build"
    /\ el # Body
    /\ last' = [op |-> "classify", options |-> NoOptions,
                result |-> [related |-> isRelatedContent(heap, el),
                            ad |-> isAdContainer(heap, el)],
                top |-> el, clone |-> 0, n |-> last.n + 1, repeat |-> FALSE]
    /\ before' = heap
    /\ phase' = "called"
    /\ UNCHANGED <<heap, calls, navyLastIndex>>
    /\ UNCHANGED readerVars

\* scoreElement(el) on an element of the page
Score(el) ==
    /\ phase = "build"
    /\ last' = [op |-> "score", options |-> NoOptions,
                result |-> scoreElement(heap, el, navyLastIndex),
                top |-> el, clone |-> 0, n |-> last.n + 1, repeat |-> FALSE]
    /\ navyLastIndex' = last'.result.lastIndex
    /\ before' = heap
    /\ phase' = "called"
    /\ UNCHANGED <<heap, calls>>
    /\ UNCHANGED readerVars

\* cleanupExtractedContent(element) on an element of the page, or again on
\* the element the call before cleaned
Cleanup(element) ==
    /\ last.n < MaxCalls
    /\ \/ phase = "build" /\ element # Body
       \/ phase = "called" /\ last.op = "cleanup" /\ element = last.top
    /\ heap' = cleanupExtractedContent(heap, element)
    /\ last' = [op |-> "cleanup", options |-> NoOptions,
                result |-> Unavailable("cleaned", None),
                top |-> element, clone |-> element, n |-> last.n + 1,
                repeat |-> last.op = "cleanup"]
    /\ before' = heap
    /\ phase' = "called"
    /\ UNCHANGED <<calls, navyLastIndex>>
    /\ UNCHANGED readerVars

\* the options of a caller that takes every candidate
TakeAll == [threshold |-> Some(0), baseUrl |-> None]

\* the options of a caller with the threshold 0.3071
FineThreshold == [threshold |-> Some(3071), baseUrl |-> None]


InitParts ==
    /\ heap \in SeedPages
    /\ phase = "build"
    /\ last = NoCall
    /\ before = heap
    /\ calls = NoCalls
    /\ navyLastIndex = 0
    /\ InitReaderOff

NextParts ==
    \/ \E parent \in DOMAIN heap, kind \in Kinds : AddChild(parent, kind)
    \/ \E element \in DOMAIN heap, baseUrl \in {DocumentLocation, OtherBase, InvalidBase} :
           Sanitize(element, baseUrl)
    \/ \E element \in DOMAIN heap : Cleanup(element)
    \/ \E options \in {NoOptions, TakeAll, FineThreshold} : Extract(options)
    \/ \E el \in DOMAIN heap : Score(el)
    \/ \E el \in DOMAIN heap : Classify(el)

SpecParts == InitParts /\ [][NextParts]_vars

(***************************************************************************)
(* The two tree walks, one loop iteration at a time.  last holds the walk: *)
(* the TreeWalker's root and currentNode, the toRemove array, the elements *)
(* that nextNode has returned so far, and the heap as the walk found it.   *)
(***************************************************************************)
Walk(fn, root, cur, toRemove, visited, state, baseUrl, start) ==
    [op |-> "walk", fn |-> fn, root |-> root, cur |-> cur, toRemove |-> toRemove,
     visited |-> visited, state |-> state, baseUrl |-> baseUrl, start |-> start]

\* the body of the while loop of sanitizeClone for the element el: the heap
\* after, whether el was pushed to toRemove, whether the body threw
SanitizeStep(h, el, baseUrl, stripped, attrs) ==
    IF h[el].tag \in REMOVED_TAGS
    THEN [heap |-> h, collect |-> TRUE, threw |-> FALSE]
    ELSE IF ~attrs.defined
         THEN [heap |-> [h EXCEPT ![el].attrs = stripped], collect |-> FALSE, threw |-> FALSE]
    ELSE IF ~attrs.array
         THEN [heap |-> [h EXCEPT ![el].attrs = stripped], collect |-> FALSE, threw |-> TRUE]
    ELSE [heap |-> [h EXCEPT ![el].attrs = NormalizeUrlAttrs(stripped, attrs.items, baseUrl)],
          collect |-> FALSE, threw |-> FALSE]

\* sanitizeClone(element, baseUrl) up to its loop: the clone and the walker
StartSanitizeWalk(element, baseUrl) ==
    /\ phase = "build"
    /\ element # Body
    /\ heap' = CloneNode(heap, element).heap
    /\ last' = Walk("sanitize", CloneNode(heap, element).id, CloneNode(heap, element).id,
                    << >>, << >>, "walking", baseUrl, heap')
    /\ before' = heap
    /\ phase' = "walking"
    /\ UNCHANGED <<calls, navyLastIndex>>
    /\ UNCHANGED readerVars

\* cleanupExtractedContent(element) up to its loop: Step 1 and the walker
StartCleanupWalk(element) ==
    /\ phase = "build"
    /\ element # Body
    /\ heap' = RemoveAll(heap, QuerySelectorAllClass(heap, element, S_srTitle))
    /\ last' = Walk("cleanup", element, element, << >>, << >>, "walking",
                    DocumentLocation, heap')
    /\ before' = heap
    /\ phase' = "walking"
    /\ UNCHANGED <<calls, navyLastIndex>>
    /\ UNCHANGED readerVars

\* the state after the loop body of sanitizeClone ran for el with outcome r
SanitizeStepped(el, r) ==
    /\ heap' = r.heap
    /\ last' = [last EXCEPT !.cur = el,
                            !.visited = Append(@, el),
                            !.toRemove = IF r.collect THEN Append(@, el) ELSE @,
                            !.state = IF r.threw THEN "threw" ELSE "walking"]
    /\ phase' = IF r.threw THEN "called" ELSE "walking"

\* walker.nextNode() returns an element and the loop body of sanitizeClone runs
SanitizeWalkStep ==
    /\ phase = "walking"
    /\ last.fn = "sanitize"
    /\ NextNode(heap, last.root, last.cur) # 0
    /\ SanitizeStepped(NextNode(heap, last.root, last.cur),
                       SanitizeStep(heap, NextNode(heap, last.root, last.cur), last.baseUrl,
                                    StripAttrs(heap[NextNode(heap, last.root, last.cur)].attrs),
                                    UrlAttrsLookup(heap[NextNode(heap, last.root, last.cur)].tag)))
    /\ UNCHANGED <<before, calls, navyLastIndex>>
    /\ UNCHANGED readerVars

\* the state after the loop body of cleanupExtractedContent ran for el
CleanupStepped(el) ==
    last' = [last EXCEPT !.cur = el,
                         !.visited = Append(@, el),
                         !.toRemove = IF el # last.root /\ MatchesNonContent(heap, el)
                                      THEN Append(@, el) ELSE @]

\* walker.nextNode() returns an element and the loop body of
\* cleanupExtractedContent runs
CleanupWalkStep ==
    /\ phase = "walking"
    /\ last.fn = "cleanup"
    /\ NextNode(heap, last.root, last.cur) # 0
    /\ CleanupStepped(NextNode(heap, last.root, last.cur))
    /\ UNCHANGED <<heap, phase, before, calls, navyLastIndex>>
    /\ UNCHANGED readerVars

\* walker.nextNode() returns null: the loop ends and the collected elements
\* are removed, in reverse order by cleanupExtractedContent
WalkEnd ==
    /\ phase = "walking"
    /\ NextNode(heap, last.root, last.cur) = 0
    /\ heap' = RemoveAll(heap, IF last.fn = "cleanup" THEN Reverse(last.toRemove)
                               ELSE last.toRemove)
    /\ last' = [last EXCEPT !.state = "done"]
    /\ phase' = "called"
    /\ UNCHANGED <<before, calls, navyLastIndex>>
    /\ UNCHANGED readerVars

NextWalk ==
    \/ \E parent \in DOMAIN heap, kind \in Kinds : AddChild(parent, kind)
    \/ \E element \in DOMAIN heap, baseUrl \in {DocumentLocation, InvalidBase} :
           StartSanitizeWalk(element, baseUrl)
    \/ \E element \in DOMAIN heap : StartCleanupWalk(element)
    \/ SanitizeWalkStep
    \/ CleanupWalkStep
    \/ WalkEnd

SpecWalk == InitParts /\ [][NextWalk]_vars

(***************************************************************************)
(* The summarizer (src/ai).  A message is a sequence of words, and         *)
(* String.prototype.includes of a keyword is the presence of that word.    *)
(* The reply of the network to the one fetch a call may make is an input.  *)
(***************************************************************************)
AI_MIN_TEXT_LENGTH == 50
DEFAULT_PROVIDER == "groq"
DEFAULT_SUMMARY_FALLBACK == <<"No", "summary", "generated">>

ERROR_MESSAGE_MAP ==
    [no_api_key |-> <<"AI", "summarization", "is", "not", "configured.", "Please", "add", "an", "API", "key", "in", "settings.">>,
     text_too_short |-> <<"Text", "is", "too", "short", "to", "summarize.">>,
     api_error |-> <<"Failed", "to", "connect", "to", "the", "AI", "service.">>,
     network_error |-> <<"Network", "error.">>,
     timeout |-> <<"Request", "timed", "out.">>,
     unsupported_provider |-> <<"Unsupported", "AI", "provider.">>,
     custom_provider_missing_url |-> <<"Custom", "provider", "requires", "an", "API", "base", "URL.">>,
     unknown |-> <<"An", "unknown", "error", "occurred", "while", "generating", "the", "summary.">>]

getUserFriendlyMessage(errorCode) ==
    IF errorCode \in DOMAIN ERROR_MESSAGE_MAP THEN ERROR_MESSAGE_MAP[errorCode]
    ELSE ERROR_MESSAGE_MAP["unknown"]

ERROR_PREFIXES ==
    [groq |-> <<"Groq", "API", "error:">>,
     openai |-> <<"OpenAI", "API", "error:">>,
     anthropic |-> <<"Anthropic", "API", "error:">>,
     gemini |-> <<"Gemini", "API", "error:">>,
     custom |-> <<"Custom", "API", "error:">>,
     API_CALL_FAILED |-> <<"API", "call", "failed:">>,
     SUMMARIZATION_FAILED |-> <<"Summarization", "failed:">>]

\* errorMessage.includes(word)
MessageIncludes(errorMessage, word) == \E i \in 1..Len(errorMessage) : errorMessage[i] = word

classifyError(errorMessage) ==
    IF MessageIncludes(errorMessage, "network") \/ MessageIncludes(errorMessage, "fetch")
    THEN "network_error"
    ELSE IF MessageIncludes(errorMessage, "timeout") THEN "timeout"
    ELSE IF \/ MessageIncludes(errorMessage, "API")
            \/ MessageIncludes(errorMessage, "401")
            \/ MessageIncludes(errorMessage, "403")
         THEN "api_error"
    ELSE "unknown"

\* a promise settled with a value, and one settled with a thrown error
Value(v, fetches) == [threw |-> FALSE, value |-> v, fetches |-> fetches]
Thrown(message, fetches) == [threw |-> TRUE, value |-> message, fetches |-> fetches]

\* the reply to a fetch: the promise rejects with an Error (kind "rejected")
\* or with a value that is no Error ("rejected_value"), or the response has
\* a status and a body; a body is no JSON ("invalid_json"), lacks the list
\* of choices ("no_choices"), has a choice without content ("no_content")
\* or has the summary
Reply(kind, status, words) == [kind |-> kind, status |-> status, words |-> words]

FetchReplies ==
    { Reply("rejected", "", <<"Failed", "to", "fetch">>),
      Reply("rejected", "", <<"The", "operation", "was", "aborted", "due", "to", "timeout">>),
      Reply("rejected", "", <<"socket", "hang", "up">>),
      Reply("rejected_value", "", <<"offline">>),
      Reply("status", "401", <<"Unauthorized">>),
      Reply("status", "500", <<"upstream", "network", "unreachable">>),
      Reply("invalid_json", "200", <<"Unexpected", "token">>),
      Reply("no_choices", "200", <<"Cannot", "read", "properties", "of", "undefined">>),
      Reply("no_content", "200", << >>),
      Reply("content", "200", <<"A", "summary.">>) }

\* callGroqAPI, callOpenAIAPI, callAnthropicAPI, callGeminiAPI and
\* callCustomAPI: one fetch, then the reading of the response
callProviderAPI(provider, reply) ==
    CASE reply.kind = "rejected" -> Thrown(reply.words, 1)
      [] reply.kind = "rejected_value" -> Thrown(reply.words, 1)
      [] reply.kind = "status" ->
            Thrown(ERROR_PREFIXES[provider] \o <<reply.status, "-">> \o reply.words, 1)
      [] reply.kind \in {"invalid_json", "no_choices"} -> Thrown(reply.words, 1)
      [] reply.kind = "no_content" -> Value(DEFAULT_SUMMARY_FALLBACK, 1)
      [] OTHER -> Value(reply.words, 1)

\* the switch of callLLMAPI
DispatchProvider(provider, config, reply) ==
    CASE provider \in {"groq", "openai", "anthropic", "gemini"} -> callProviderAPI(provider, reply)
      [] provider = "custom" ->
            IF config.apiBaseUrl = None
            THEN Thrown(getUserFriendlyMessage("custom_provider_missing_url"), 0)
            ELSE callProviderAPI(provider, reply)
      [] OTHER -> Thrown(getUserFriendlyMessage("unsupported_provider"), 0)

\* the catch of callLLMAPI: error instanceof Error ? error.message
\* : 'Unknown error', rethrown with the prefix
RethrowAsApiCallFailed(r, reply) ==
    IF ~r.threw THEN r
    ELSE Thrown(ERROR_PREFIXES["API_CALL_FAILED"]
                \o (IF r.fetches = 1 /\ reply.kind = "rejected_value"
                    THEN <<"Unknown", "error">> ELSE r.value),
                r.fetches)

callLLMAPI(text, config, reply) ==
    RethrowAsApiCallFailed(
        DispatchProvider(IF config.provider = None THEN DEFAULT_PROVIDER ELSE config.provider[1],
                         config, reply),
        reply)

\* what summarizeText resolves to
SummarizerResult(ok, summary, error, errorCode, fetches) ==
    [outcome |-> "resolved", ok |-> ok, summary |-> summary, error |-> error,
     errorCode |-> errorCode, fetches |-> fetches]

\* the try / catch of summarizeText around the call r
ResultOfCall(r) ==
    IF ~r.threw THEN SummarizerResult(TRUE, Some(r.value), None, None, r.fetches)
    ELSE SummarizerResult(FALSE, None,
                          Some(ERROR_PREFIXES["SUMMARIZATION_FAILED"] \o r.value),
                          Some(classifyError(r.value)), r.fetches)

\* !config || !config.apiKey
NoApiKey(config) == config = None \/ config[1].apiKey = ""

\* !text || text.trim().length < MIN_TEXT_LENGTH
TextTooShort(text) == TextLen(text) = 0 \/ TextLen(Trim(text)) < AI_MIN_TEXT_LENGTH

\* a summarizeText that validates the text before the configuration
summarizeTextLengthFirst(text, config, reply) ==
    IF TextTooShort(text)
    THEN SummarizerResult(FALSE, None, Some(getUserFriendlyMessage("text_too_short")),
                          Some("unknown"), 0)
    ELSE IF NoApiKey(config)
    THEN SummarizerResult(FALSE, None, Some(getUserFriendlyMessage("no_api_key")),
                          Some("no_api_key"), 0)
    ELSE ResultOfCall(callLLMAPI(text, config[1], reply))

summarizeText(text, config, reply) ==
    IF NoApiKey(config)
    THEN SummarizerResult(FALSE, None, Some(getUserFriendlyMessage("no_api_key")),
                          Some("no_api_key"), 0)
    ELSE IF TextTooShort(text)
    THEN SummarizerResult(FALSE, None, Some(getUserFriendlyMessage("text_too_short")),
                          Some("unknown"), 0)
    ELSE ResultOfCall(callLLMAPI(text, config[1], reply))

SummarizerConfig(apiKey, provider, apiBaseUrl) ==
    [apiKey |-> apiKey, provider |-> provider, apiBaseUrl |-> apiBaseUrl]

Configs ==
    { None,
      Some(SummarizerConfig("", None, None)),
      Some(SummarizerConfig("", Some("openai"), None)),
      Some(SummarizerConfig(" ", None, None)),
      Some(SummarizerConfig("gsk", None, None)),
      Some(SummarizerConfig("sk", Some("openai"), None)),
      Some(SummarizerConfig("sk", Some("anthropic"), None)),
      Some(SummarizerConfig("sk", Some("gemini"), None)),
      Some(SummarizerConfig("sk", Some("custom"), None)),
      Some(SummarizerConfig("sk", Some("custom"), Some("https://llm.local"))),
      Some(SummarizerConfig("sk", Some("mistral"), None)) }

Texts ==
    { << >>,
      <<Ws(60)>>,
      <<Ws(5), Filler(49), Ws(5)>>,
      <<Filler(50)>>,
      <<Ws(1), Filler(50)>>,
      <<Filler(9000)>> }

\* a caller awaits summarizeText(text, config); the network answers reply
\* if it is asked
Summarize(text, config, reply) ==
    /\ last' = [op |-> "summarize", text |-> text, config |-> config, reply |-> reply,
                result |-> summarizeText(text, config, reply), n |-> 1]
    /\ UNCHANGED <<heap, phase, before, calls, navyLastIndex>>
    /\ UNCHANGED readerVars

NextSummarize ==
    \E text \in Texts, config \in Configs, reply \in FetchReplies :
        Summarize(text, config, reply)

SpecSummarize == Init /\ [][NextSummarize]_vars

(***************************************************************************)
(* Reader mode (src/content/readerMode.ts, contentScript.ts) and the       *)
(* message handler (src/extension/contentHandler.ts).  The document is the *)
(* heap under Body together with documentElement; assigning innerHTML to   *)
(* the <html> element replaces the heap by the parsed markup, numbered in  *)
(* document order.  The line breaks and the indentation of the shell       *)
(* template between its elements are left out.  A font scale is in         *)
(* hundredths.                                                             *)
(***************************************************************************)
FONT_SCALE_MIN == 80
FONT_SCALE_MAX == 160
FONT_SCALE_INCREMENT == 10
FONT_SCALE_DEFAULT == 100

DEFAULT_TITLE == <<"R", "e", "a", "d", "e", "r">>
ELEMENT_ID_ROOT == <<"s", "t", "i", "l", "l", "-", "r", "e", "a", "d", "e", "r", "-", "r", "o", "o", "t">>
ELEMENT_ID_CONTROLS == <<"s", "t", "i", "l", "l", "-", "r", "e", "a", "d", "e", "r", "-", "c", "o", "n", "t", "r", "o", "l", "s">>
ELEMENT_ID_FONT_INC == <<"s", "r", "-", "f", "o", "n", "t", "-", "i", "n", "c">>
ELEMENT_ID_FONT_DEC == <<"s", "r", "-", "f", "o", "n", "t", "-", "d", "e", "c">>
ELEMENT_ID_EXIT == <<"s", "r", "-", "e", "x", "i", "t">>
ELEMENT_ID_UNAVAILABLE == <<"s", "t", "i", "l", "l", "-", "r", "e", "a", "d", "e", "r", "-", "u", "n", "a", "v", "a", "i", "l", "a", "b", "l", "e">>
C_srArticle == <<"s", "r", "-", "a", "r", "t", "i", "c", "l", "e">>
T_ADec == <<"A", "-">>
T_AInc == <<"A", "+">>
T_Exit == <<"E", "x", "i", "t">>
T_NotAvailable == <<"R", "e", "a", "d", "e", "r", " ", "m", "o", "d", "e", " ", "n", "o", "t", " ", "a", "v", "a", "i", "l", "a", "b", "l", "e", " ", "f", "o", "r", " ", "t", "h", "i", "s", " ", "p", "a", "g", "e", ".">>

\* markup: an element with its attributes, leading text and children
Html(tag, attrs, text, kids) ==
    [tag |-> tag, attrs |-> attrs, inner |-> [text |-> text, kids |-> kids]]

\* the inline declarations applyState leaves on an element for a theme
ThemeStyle(theme) == [display |-> "", visibility |-> "", theme |-> theme]

ControlButton(id, label, text) ==
    Html("button", [id |-> id] @@ ("aria-label" :> label), <<Word(text)>>, << >>)

\* generateBody(title, html, theme): title is undefined or a string
generateBody(title, html, theme) ==
    Html("body", ("data-theme" :> theme), << >>,
         << Html("div", [id |-> ELEMENT_ID_ROOT], << >>,
                 << Html("div", [id |-> ELEMENT_ID_CONTROLS], << >>,
                         << ControlButton(ELEMENT_ID_FONT_DEC, "Decrease font size", T_ADec),
                            ControlButton(ELEMENT_ID_FONT_INC, "Increase font size", T_AInc),
                            ControlButton(ELEMENT_ID_EXIT, "Exit reader", T_Exit) >>) >>
                 \o (IF title = None \/ title = Some(EmptyStr) THEN << >>
                     ELSE << Html("h1", [class |-> S_srTitle], <<Word(title[1])>>, << >>) >>)
                 \o << Html("article", [class |-> C_srArticle], html.text, html.kids) >>) >>)

\* the node the parser makes of the markup e under parent
ParsedNode(e, parent) ==
    [tag |-> e.tag, attrs |-> e.attrs, text |-> e.inner.text,
     kids |-> << >>, content |-> << >>, parent |-> parent]

\* the parser appends the node id for e to parent, or to the content
\* fragment of a template
Attach(h, parent, asContent, e, id) ==
    IF asContent
    THEN (id :> ParsedNode(e, 0)) @@ [h EXCEPT ![parent].content = Append(@, id)]
    ELSE (id :> ParsedNode(e, parent)) @@ [h EXCEPT ![parent].kids = Append(@, id)]

RECURSIVE ParseList(_, _, _, _)
\* the parser makes the element e, then its children
ParseElement(h, parent, asContent, e, id) ==
    ParseList(Attach(h, parent, asContent, e, id), id, e.tag = "template", e.inner.kids)

\* the parser makes the elements of the markup htmls under parent
ParseList(h, parent, asContent, htmls) ==
    IF htmls = << >> THEN h
    ELSE ParseList(ParseElement(h, parent, asContent, Head(htmls), NextId(h)),
                   parent, asContent, Tail(htmls))

\* document.documentElement.innerHTML = markup: a new body and its contents
ParseDocument(bodyHtml) ==
    ParseList((Body :> ParsedNode(bodyHtml, 0)), Body, FALSE, bodyHtml.inner.kids)

\* document.getElementById (0: null)
GetElementById(h, id) ==
    LET found == SelectSeq(Descendants(h, Body), LAMBDA d : IdOf(h[d]) = id)
    IN  IF found = << >> THEN 0 ELSE Head(found)

\* el.style.<property> = value: the style attribute of el becomes style
SetStyle(h, el, style) ==
    [h EXCEPT ![el].attrs = [a \in DOMAIN @ \cup {"style"} |-> IF a = "style" THEN style ELSE @[a]]]

RECURSIVE SetStyles(_, _, _)
\* buttons.forEach
SetStyles(h, els, style) ==
    IF els = << >> THEN h ELSE SetStyles(SetStyle(h, Head(els), style), Tail(els), style)

\* applyThemeToBody: the data-theme attribute and the colours of body
applyThemeToBody(h, theme) ==
    [h EXCEPT ![Body].attrs =
        [a \in DOMAIN @ \cup {"data-theme", "style"} |->
            IF a = "data-theme" THEN theme
            ELSE IF a = "style" THEN ThemeStyle(theme) ELSE @[a]]]

\* applyThemeToControls and applyThemeToButtons, controls being
\* getElementById(ELEMENT_IDS.CONTROLS)
ApplyThemeToControlsAt(h, controls, theme) ==
    IF controls = 0 THEN h
    ELSE SetStyles(SetStyle(h, controls, ThemeStyle(theme)),
                   QuerySelectorAll(h, controls, {"button"}), ThemeStyle(theme))

\* the world a handler runs in: the document and the state of the modules
World(h, r, html, n, lastIndex) ==
    [heap |-> h, reader |-> r, documentElement |-> html, listeners |-> n,
     lastIndex |-> lastIndex]

\* applyState(document, next) in the world w: updateFontScale sets the
\* --sr-font-scale property of the <html> element's inline style
applyState(w, next) ==
    [w EXCEPT !.documentElement.style = Some(next.fontScale),
              !.heap = ApplyThemeToControlsAt(applyThemeToBody(w.heap, next.theme),
                                              GetElementById(w.heap, ELEMENT_ID_CONTROLS),
                                              next.theme)]

\* Math.min(MAX, Math.max(MIN, Number(value.toFixed(2))))
clampFontScale(value) ==
    IF value > FONT_SCALE_MAX THEN FONT_SCALE_MAX
    ELSE IF value < FONT_SCALE_MIN THEN FONT_SCALE_MIN ELSE value

\* what a handler returns: ok, reason and, from the content script, the
\* confidence and the text length; active is filled in for ping
Response(ok, reason, confidence, textLength) ==
    [outcome |-> "returned", ok |-> ok, reason |-> reason, active |-> None,
     confidence |-> confidence, textLength |-> textLength]

\* the handler threw
ThrewResponse == [Response(FALSE, None, None, None) EXCEPT !.outcome = "threw"]

\* the world after a handler, what it returned, and what extractArticle
\* had returned to it (None: it was not called)
Outcome(w, response, extraction) ==
    [world |-> w, response |-> response, extraction |-> extraction]

\* content of activateReader: the html, and title, theme, fontScale or None
ReaderContent(html, title, theme, fontScale) ==
    [html |-> html, title |-> title, theme |-> theme, fontScale |-> fontScale]

\* content.theme ?? DEFAULT_THEME.theme, content.fontScale ?? DEFAULT_THEME.fontScale
StateOf(content) ==
    [theme |-> IF content.theme = None THEN "light" ELSE content.theme[1],
     fontScale |-> IF content.fontScale = None THEN FONT_SCALE_DEFAULT
                   ELSE content.fontScale[1]]

\* the snapshot: document.documentElement.innerHTML, head and body
SnapshotOf(w) == [title |-> w.documentElement.title, body |-> OuterHTML(w.heap, Body)]

\* activateReader from the assignment of the shell on, for the state next
RenderShell(w, content, next) ==
    applyState(
        World(ParseDocument(generateBody(content.title, content.html, next.theme)),
              [active |-> TRUE, snapshot |-> Some(SnapshotOf(w)), state |-> Some(next)],
              [w.documentElement EXCEPT
                   !.title = IF content.title = None THEN DEFAULT_TITLE ELSE content.title[1]],
              w.listeners + 1, w.lastIndex),
        next)

activateReader(w, content) ==
    IF w.reader.active
    THEN Outcome(w, Response(FALSE, Some("already_active"), None, None), None)
    ELSE Outcome(RenderShell(w, content, StateOf(content)),
                 Response(TRUE, None, None, None), None)

\* a deactivateReader that restores the document and keeps the module state
deactivateReaderKeepingActive(w) ==
    IF ~w.reader.active \/ w.reader.snapshot = None
    THEN Outcome(w, Response(TRUE, Some("not_active"), None, None), None)
    ELSE Outcome([w EXCEPT !.heap = ParseDocument(w.reader.snapshot[1].body),
                           !.documentElement.title = w.reader.snapshot[1].title],
                 Response(TRUE, None, None, None), None)

\* deactivateReader: the <html> element keeps its own attributes
deactivateReader(w) ==
    IF ~w.reader.active \/ w.reader.snapshot = None
    THEN Outcome(w, Response(TRUE, Some("not_active"), None, None), None)
    ELSE Outcome([w EXCEPT !.heap = ParseDocument(w.reader.snapshot[1].body),
                           !.documentElement.title = w.reader.snapshot[1].title,
                           !.reader = ReaderOff],
                 Response(TRUE, None, None, None), None)

isReaderActive(w) == w.reader.active

changeTheme(w, theme) ==
    IF ~w.reader.active \/ w.reader.state = None
    THEN Outcome(w, Response(FALSE, Some("not_active"), None, None), None)
    ELSE Outcome(applyState([w EXCEPT !.reader.state = Some([@[1] EXCEPT !.theme = theme])],
                            [w.reader.state[1] EXCEPT !.theme = theme]),
                 Response(TRUE, None, None, None), None)

\* handleFontIncrease and handleFontDecrease (delta: the signed increment)
handleFont(w, delta) ==
    IF w.reader.state = None THEN w
    ELSE applyState(
             [w EXCEPT !.reader.state =
                  Some([@[1] EXCEPT !.fontScale = clampFontScale(@ + delta)])],
             [w.reader.state[1] EXCEPT !.fontScale = clampFontScale(@ + delta)])

\* handleExit
handleExit(w) == deactivateReader(w).world

\* one keydown listener on the key
KeyListener(w, key) ==
    CASE key = "Escape" -> handleExit(w)
      [] key \in {"+", "="} -> handleFont(w, FONT_SCALE_INCREMENT)
      [] key = "-" -> handleFont(w, 0 - FONT_SCALE_INCREMENT)
      [] OTHER -> w

RECURSIVE DispatchKey(_, _, _)
\* the n keydown listeners registered on document, in turn
DispatchKey(w, key, n) ==
    IF n = 0 THEN w ELSE DispatchKey(KeyListener(w, key), key, n - 1)

\* injectNotice(document, message): a notice under body, unless there is one
injectNotice(h, id) ==
    IF GetElementById(h, ELEMENT_ID_UNAVAILABLE) # 0 THEN h
    ELSE Attach(h, Body, FALSE,
                Html("div", [id |-> ELEMENT_ID_UNAVAILABLE,
                             style |-> [display |-> "", visibility |-> "", theme |-> "notice"]],
                     <<Word(T_NotAvailable)>>, << >>),
                id)

\* options of activateReaderMode
ActivationOptions(threshold, theme, fontScale, showUnavailableNotice) ==
    [threshold |-> threshold, theme |-> theme, fontScale |-> fontScale,
     showUnavailableNotice |-> showUnavailableNotice]

\* the nodes of the document: a call leaves its clone behind, detached
DocumentOf(h, ids) == [id \in ids |-> h[id]]

\* the result of activateReaderMode after activateReader returned a
ActivationResult(a, extraction) ==
    Outcome(a.world,
            IF ~a.response.ok
            THEN Response(FALSE, a.response.reason, extraction.confidence, None)
            ELSE Response(TRUE, None, extraction.confidence, Some(TextLen(extraction.text[1]))),
            Some(extraction))

\* activateReaderMode after extractArticle returned extraction in the world w
ActivateExtracted(w, options, extraction) ==
    IF extraction.outcome = "threw" THEN Outcome(w, ThrewResponse, Some(extraction))
    ELSE IF extraction.unavailable
    THEN Outcome([w EXCEPT !.heap = IF options.showUnavailableNotice
                                    THEN injectNotice(w.heap, NextId(w.heap)) ELSE w.heap],
                 Response(FALSE, Some(extraction.reason), extraction.confidence, None),
                 Some(extraction))
    ELSE ActivationResult(
             activateReader(w, ReaderContent(extraction.html[1],
                                Some(IF w.documentElement.title = EmptyStr
                                     THEN DEFAULT_TITLE ELSE w.documentElement.title),
                                options.theme, options.fontScale)),
             extraction)

\* the world after the call x of extractArticle: the document as the call
\* left it, and the RegExp state
AfterExtraction(w, options, x) ==
    ActivateExtracted([w EXCEPT !.heap = DocumentOf(x.heap, DOMAIN w.heap),
                                !.lastIndex = x.lastIndex],
                      options, x.result)

\* activateReaderMode(document, options): extractArticle runs first
activateReaderMode(w, options) ==
    AfterExtraction(w, options,
                    extractArticle(w.heap, [threshold |-> options.threshold, baseUrl |-> None],
                                   w.lastIndex))

deactivateReaderMode(w) == deactivateReader(w)

\* the 'activate' and 'toggle-reader' branches call activateReaderMode with
\* showUnavailableNotice: false
ActivateQuietly(w, options) ==
    activateReaderMode(w, [options EXCEPT !.showUnavailableNotice = FALSE])

\* handleReaderMessage(document, message)
handleReaderMessage(w, message) ==
    CASE message.type = "ping" ->
            Outcome(w, [Response(TRUE, None, None, None) EXCEPT !.active = Some(isReaderActive(w))],
                    None)
      [] message.type = "activate" -> ActivateQuietly(w, message.options)
      [] message.type = "deactivate" -> deactivateReaderMode(w)
      [] message.type = "toggle-reader" ->
            IF isReaderActive(w) THEN deactivateReaderMode(w)
            ELSE ActivateQuietly(w, ActivationOptions(None, None, None, FALSE))
      [] message.type = "changeTheme" -> changeTheme(w, message.theme)
      [] OTHER -> Outcome(w, Response(FALSE, Some("unknown_message"), None, None), None)

MaxActivations == 2

\* <article><h1>Title</h1><p>...</p> (five of 200 characters)</article>
ArticlePage ==
    << Node("body", NoAttrs, << >>, 0, <<2>>),
       Node("article", NoAttrs, << >>, 1, <<3, 4, 5, 6, 7, 8>>),
       Node("h1", NoAttrs, <<Word(T_Title)>>, 2, << >>),
       Node("p", NoAttrs, <<Filler(200)>>, 2, << >>),
       Node("p", NoAttrs, <<Filler(200)>>, 2, << >>),
       Node("p", NoAttrs, <<Filler(200)>>, 2, << >>),
       Node("p", NoAttrs, <<Filler(200)>>, 2, << >>),
       Node("p", NoAttrs, <<Filler(200)>>, 2, << >>) >>

\* <div class="sidebar nav"><a href="/a/b">Link</a><p>...</p></div>
NavOnlyPage ==
    << Node("body", NoAttrs, << >>, 0, <<2>>),
       Node("div", [class |-> C_sidebarNav], << >>, 1, <<3, 4>>),
       Node("a", [href |-> RelativeLink], <<Word(T_Link)>>, 2, << >>),
       Node("p", NoAttrs, <<Filler(150)>>, 2, << >>) >>

\* <article><p>...</p><footer><h1>Title</h1></footer></article>
FooterPage ==
    << Node("body", NoAttrs, << >>, 0, <<2>>),
       Node("article", NoAttrs, << >>, 1, <<3, 4>>),
       Node("p", NoAttrs, <<Filler(150)>>, 2, << >>),
       Node("footer", NoAttrs, << >>, 2, <<5>>),
       Node("h1", NoAttrs, <<Word(T_Title)>>, 4, << >>) >>

ReaderPages == {EmptyPage, ArticlePage, NavOnlyPage, FooterPage, RootPage}

\* a message to the content script
ReaderMessage(type, options, theme) == [type |-> type, options |-> options, theme |-> theme]

NoActivationOptions == ActivationOptions(None, None, None, FALSE)

Messages ==
    { ReaderMessage("ping", NoActivationOptions, "light"),
      ReaderMessage("activate", NoActivationOptions, "light"),
      ReaderMessage("activate", ActivationOptions(Some(0), None, None, FALSE), "light"),
      ReaderMessage("activate", ActivationOptions(Some(9000), None, None, FALSE), "light"),
      ReaderMessage("activate", ActivationOptions(None, Some("dark"), Some(150), FALSE), "light"),
      ReaderMessage("activate", ActivationOptions(Some(0), None, Some(200), FALSE), "light"),
      ReaderMessage("deactivate", NoActivationOptions, "light"),
      ReaderMessage("toggle-reader", NoActivationOptions, "light"),
      ReaderMessage("changeTheme", NoActivationOptions, "light"),
      ReaderMessage("changeTheme", NoActivationOptions, "dark") }

\* the contents a caller hands to activateReader: <p>A</p> and <p>B</p>
Contents ==
    { ReaderContent([text |-> << >>, kids |-> <<Html("p", NoAttrs, <<Word(<<c>>)>>, << >>)>>],
                    None, None, None) : c \in {"A", "B"} }

Event(kind, arg) == [kind |-> kind, arg |-> arg]

\* the event activates the reader: an 'activate' message or a call of
\* activateReader that returns ok, or a 'toggle-reader' message that finds
\* the reader off and returns ok
Activates(event, response, wasActive) ==
    /\ response.outcome = "returned"
    /\ response.ok
    /\ \/ event.kind = "call"
       \/ event.kind = "message" /\ event.arg.type = "activate"
       \/ event.kind = "message" /\ event.arg.type = "toggle-reader" /\ ~wasActive

\* the event deactivates the reader: a 'deactivate' message, a
\* 'toggle-reader' message that finds it on, the Exit button, the Escape key
Deactivates(event, wasActive) ==
    \/ event.kind = "message" /\ event.arg.type = "deactivate"
    \/ event.kind = "message" /\ event.arg.type = "toggle-reader" /\ wasActive
    \/ event.kind = "click" /\ event.arg = ELEMENT_ID_EXIT
    \/ event.kind = "key" /\ event.arg = "Escape"

NoEvent ==
    [op |-> "none", event |-> Event("none", "none"),
     response |-> [Response(FALSE, None, None, None) EXCEPT !.outcome = "none"],
     extraction |-> None,
     prior |-> [reader |-> ReaderOff, documentElement |-> HtmlElement(EmptyStr), listeners |-> 0,
                session |-> None],
     expected |-> FALSE, origin |-> None, session |-> None]

\* the name of the document the handlers are given
CurrentName == IF other.name = "A" THEN "B" ELSE "A"

\* the state after the handler of event left the outcome o; expected and
\* origin keep the history: whether the latest activation is still in force,
\* and the document it replaced
Handled(event, o) ==
    /\ heap' = o.world.heap
    /\ reader' = o.world.reader
    /\ documentElement' = o.world.documentElement
    /\ listeners' = o.world.listeners
    /\ navyLastIndex' = o.world.lastIndex
    /\ before' = heap
    /\ last' = [op |-> "reader", event |-> event, response |-> o.response,
                extraction |-> o.extraction,
                prior |-> [reader |-> reader, documentElement |-> documentElement,
                           listeners |-> listeners, session |-> last.session],
                session |-> IF ~o.world.reader.active THEN None
                            ELSE IF reader.active THEN last.session
                            ELSE Some(CurrentName),
                expected |-> IF Activates(event, o.response, last.expected) THEN TRUE
                             ELSE IF Deactivates(event, last.expected) THEN FALSE
                             ELSE last.expected,
                origin |-> IF Activates(event, o.response, last.expected)
                           THEN Some([body |-> OuterHTML(heap, Body),
                                      documentElement |-> documentElement])
                           ELSE last.origin]
    /\ UNCHANGED <<phase, calls, other>>

TheWorld == World(heap, reader, documentElement, listeners, navyLastIndex)

\* the content script receives message
Message(message) ==
    /\ message.type \in {"activate", "toggle-reader"} => listeners < MaxActivations
    /\ Handled(Event("message", message), handleReaderMessage(TheWorld, message))

\* a caller runs activateReader(document, content)
CallActivateReader(content) ==
    /\ listeners < MaxActivations
    /\ Handled(Event("call", content), activateReader(TheWorld, content))

\* a click on the Exit button of the shell
ClickExit ==
    /\ GetElementById(heap, ELEMENT_ID_EXIT) # 0
    /\ Handled(Event("click", ELEMENT_ID_EXIT),
               Outcome(handleExit(TheWorld), NoEvent.response, None))

\* a click on the A+ or the A- button of the shell
ClickFont(id) ==
    /\ GetElementById(heap, id) # 0
    /\ Handled(Event("click", id),
               Outcome(handleFont(TheWorld, IF id = ELEMENT_ID_FONT_INC
                                            THEN FONT_SCALE_INCREMENT
                                            ELSE 0 - FONT_SCALE_INCREMENT),
                       NoEvent.response, None))

\* a key goes down on the document, outside input fields
KeyDown(key) ==
    /\ listeners > 0
    /\ Handled(Event("key", key),
               Outcome(DispatchKey(TheWorld, key, listeners), NoEvent.response, None))

InitReader ==
    /\ heap \in ReaderPages
    /\ phase = "reader"
    /\ last = NoEvent
    /\ before = heap
    /\ calls = NoCalls
    /\ navyLastIndex = 0
    /\ reader = ReaderOff
    /\ documentElement \in {HtmlElement(EmptyStr), HtmlElement(T_Title)}
    /\ listeners = 0
    /\ other = NoOther

NextReader ==
    \/ \E message \in Messages : Message(message)
    \/ \E content \in Contents : CallActivateReader(content)
    \/ ClickExit
    \/ \E id \in {ELEMENT_ID_FONT_INC, ELEMENT_ID_FONT_DEC} : ClickFont(id)
    \/ \E key \in {"Escape", "+", "=", "-"} : KeyDown(key)

SpecReader == InitReader /\ [][NextReader]_vars

(***************************************************************************)
(* Two documents and one reader module: the handlers are given the         *)
(* current document, and a caller may turn to the other one.               *)
(***************************************************************************)
\* the caller turns to the other document
SwitchDocument ==
    /\ heap' = other.heap
    /\ documentElement' = other.documentElement
    /\ listeners' = other.listeners
    /\ other' = Document(CurrentName, heap, documentElement, listeners)
    /\ before' = other.heap
    /\ last' = [last EXCEPT !.op = "switch"]
    /\ UNCHANGED <<phase, calls, navyLastIndex, reader>>

DocMessages ==
    { ReaderMessage("activate", NoActivationOptions, "light"),
      ReaderMessage("deactivate", NoActivationOptions, "light"),
      ReaderMessage("changeTheme", NoActivationOptions, "dark") }

InitDocs ==
    /\ heap = ArticlePage
    /\ phase = "reader"
    /\ last = NoEvent
    /\ before = heap
    /\ calls = NoCalls
    /\ navyLastIndex = 0
    /\ reader = ReaderOff
    /\ documentElement = HtmlElement(T_Title)
    /\ listeners = 0
    /\ other = Document("B", FooterPage, HtmlElement(EmptyStr), 0)

NextDocs ==
    \/ \E message \in DocMessages : Message(message)
    \/ \E content \in Contents : CallActivateReader(content)
    \/ ClickExit
    \/ KeyDown("Escape")
    \/ SwitchDocument

SpecDocs == InitDocs /\ [][NextDocs]_vars

(***************************************************************************)
(* Properties.                                                             *)
(***************************************************************************)
IsExtracted(r) == r.outcome = "returned" /\ ~r.unavailable

IsUnavailable(r, reason) == r.outcome = "returned" /\ r.unavailable /\ r.reason = reason

\* the candidate-selector elements of the page as it was before the call
\* that are visible and long enough or have two paragraphs, in document order
ViableElements ==
    SelectSeq(Descendants(before, Body),
              LAMBDA el :
                  /\ before[el].tag \in {"article", "main", "div", "section"}
                  /\ isVisible(before, el)
                  /\ \/ TextLen(Trim(TextContent(before, el))) >= 150
                     \/ Len(QuerySelectorAll(before, el, {"p"})) >= 2)

TotalOfElement(el) == scoreElement(before, el, 0).total

\* C1: extractArticle (and sanitizeClone) never mutates its input: after a
\* call with any outcome every node that existed before the call, the whole
\* document included, is exactly as it was; only fresh clone nodes differ.
C1_InputNotMutated ==
    last.op # "none" =>
        /\ DOMAIN before \subseteq DOMAIN heap
        /\ \A id \in DOMAIN before : heap[id] = before[id]

\* a call that sanitized the winner and returned a clone that differs from it
C1_Witness ==
    /\ last.op = "extract"
    /\ IsExtracted(last.result)
    /\ OuterHTML(heap, last.clone) # OuterHTML(heap, last.top)

RECURSIVE NoUnsafe(_)
\* no element of an unsafe tag and no on* or style attribute, at any depth
NoUnsafe(html) ==
    \A i \in 1..Len(html.kids) :
        /\ html.kids[i].tag \notin
               {"script", "style", "noscript", "iframe", "form", "input", "button",
                "select", "option", "textarea", "svg", "canvas"}
        /\ \A a \in DOMAIN html.kids[i].attrs :
               ~(StartsWith(AttrSpelling[a], <<"o", "n">>) \/ a = "style")
        /\ NoUnsafe(html.kids[i].inner)

\* C2: whenever extractArticle returns an Extracted result, its html holds
\* no element with an unsafe tag and no attribute named on* or style, at
\* any depth.
C2_NoUnsafeLeakage ==
    (last.op = "extract" /\ IsExtracted(last.result)) => NoUnsafe(last.result.html[1])

\* C3: extractArticle never throws; it returns Extracted with reason 'ok' or
\* Unavailable with one of the three reasons, the first without confidence
\* and the other two with the winning candidate's confidence.
C3_NeverThrows ==
    last.op = "extract" =>
        /\ last.result.outcome = "returned"
        /\ \/ ~last.result.unavailable /\ last.result.reason = "ok"
           \/ /\ IsUnavailable(last.result, "No viable candidates found")
              /\ last.result.confidence = None
           \/ /\ \/ IsUnavailable(last.result, "Confidence below threshold")
                 \/ IsUnavailable(last.result, "Extracted content too small")
              /\ last.result.confidence =
                     Some(normalizeConfidence(TotalOfElement(last.top)))

\* C4: every Extracted result has non-empty html and a trimmed text of at
\* least 150 characters; when the cleaned clone's html is empty or its
\* trimmed text is shorter, the result is 'Extracted content too small'.
C4_ExtractedNotSmall ==
    (last.op = "extract" /\ last.result.outcome = "returned") =>
        /\ IsExtracted(last.result) =>
               /\ last.clone # 0
               /\ last.result.html[1] = TrimHTML(InnerHTML(heap, last.clone))
               /\ last.result.text[1] = Trim(TextContent(heap, last.clone))
               /\ ~IsEmptyHTML(last.result.html[1])
               /\ TextLen(last.result.text[1]) >= 150
        /\ (/\ last.clone # 0
            /\ \/ IsEmptyHTML(TrimHTML(InnerHTML(heap, last.clone)))
               \/ TextLen(Trim(TextContent(heap, last.clone))) < 150)
           => IsUnavailable(last.result, "Extracted content too small")

\* the winner had at least 150 characters when scored and the cleaned clone
\* has fewer
C4_Witness ==
    /\ last.op = "extract"
    /\ IsUnavailable(last.result, "Extracted content too small")
    /\ TextLen(Trim(TextContent(before, last.top))) >= 150

\* C5: the result is 'No viable candidates found' if and only if no
\* element matching the candidate selector is visible and has
\* textLength >= 150 or paragraphCount >= 2.
C5_NoViableIff ==
    last.op = "extract" =>
        (IsUnavailable(last.result, "No viable candidates found") <=> ViableElements = << >>)

\* a page with an article that holds one short paragraph is declined
C5_Witness ==
    /\ last.op = "extract"
    /\ IsUnavailable(last.result, "No viable candidates found")
    /\ \E el \in DOMAIN before :
           /\ before[el].tag = "article"
           /\ Len(QuerySelectorAll(before, el, {"p"})) = 1
           /\ isVisible(before, el)

\* the threshold in force, in units of 10^-4
ThresholdInForce(options) ==
    IF options.threshold = None THEN 3500 ELSE options.threshold[1]

\* C6: with a viable candidate, the result is 'Confidence below threshold'
\* exactly when the winner's confidence is strictly below the threshold in
\* force (0.35 when undefined, an explicit 0 honoured), and then nothing
\* was cloned, sanitized or cleaned.
C6_ThresholdGate ==
    (last.op = "extract" /\ ViableElements # << >>) =>
        /\ IsUnavailable(last.result, "Confidence below threshold")
               <=> ConfidenceBelow(normalizeConfidence(TotalOfElement(last.top)),
                                   ThresholdInForce(last.options))
        /\ IsUnavailable(last.result, "Confidence below threshold") =>
               (last.clone = 0 /\ heap = before)

\* a call with threshold 0 that was not declined although the default
\* threshold would have declined it
C6_Witness ==
    /\ last.op = "extract"
    /\ last.options.threshold = Some(0)
    /\ last.clone # 0
    /\ ConfidenceBelow(normalizeConfidence(TotalOfElement(last.top)), 3500)

\* C7: the candidate that is sanitized has a maximal total among the viable
\* candidates and is the first in document order among those with its total.
C7_WinnerSelection ==
    (last.op = "extract" /\ ViableElements # << >>) =>
        /\ \E i \in 1..Len(ViableElements) : ViableElements[i] = last.top
        /\ \A i \in 1..Len(ViableElements) :
               LET c == FracCmp(TotalOfElement(ViableElements[i]), TotalOfElement(last.top))
               IN  /\ c <= 0
                   /\ c = 0 => IndexOf(ViableElements, last.top) <= i

\* an ancestor and its descendant tie and the ancestor is extracted
C7_Witness ==
    /\ last.op = "extract"
    /\ IsExtracted(last.result)
    /\ \E i \in 1..Len(ViableElements) :
           /\ ViableElements[i] # last.top
           /\ FracCmp(TotalOfElement(ViableElements[i]), TotalOfElement(last.top)) = 0

\* C8: on one document with one baseUrl, a call that returns Extracted with
\* threshold t2 returns Extracted with the same html and text with any
\* threshold t1 <= t2.
C8_MonotonicRejection ==
    \A o1, o2 \in DOMAIN calls :
        (/\ o1.baseUrl = o2.baseUrl
         /\ ThresholdInForce(o1) <= ThresholdInForce(o2)
         /\ IsExtracted(calls[o2]))
        => /\ IsExtracted(calls[o1])
           /\ calls[o1].html = calls[o2].html
           /\ calls[o1].text = calls[o2].text

\* two calls with different thresholds, both Extracted
C8_Witness ==
    \E o1, o2 \in DOMAIN calls :
        /\ o1.baseUrl = o2.baseUrl
        /\ ThresholdInForce(o1) < ThresholdInForce(o2)
        /\ IsExtracted(calls[o2])

C10_SanitizeIdempotent ==
    (last.op = "sanitize" /\ last.repeat /\ last.result.outcome = "returned") =>
        OuterHTML(heap, last.clone) = OuterHTML(heap, last.top)

\* the second sanitize of a tree whose first sanitize changed something
C10_Witness ==
    /\ last.op = "sanitize"
    /\ last.repeat
    /\ last.result.outcome = "returned"
    /\ \E src \in DOMAIN before : OuterHTML(before, src) # OuterHTML(heap, last.top)
                                  /\ before[src].tag = heap[last.top].tag
                                  /\ before[src].parent # 0

RECURSIVE FullPreorderOfList(_, _)
\* the nodes ks and everything under them, template contents included, in
\* the order cloneNode copies them
FullPreorderOfList(h, ks) ==
    IF ks = << >> THEN << >>
    ELSE <<Head(ks)>> \o FullPreorderOfList(h, h[Head(ks)].kids)
                      \o FullPreorderOfList(h, h[Head(ks)].content)
                      \o FullPreorderOfList(h, Tail(ks))

FullPreorder(h, id) == FullPreorderOfList(h, <<id>>)

SeqRange(seq) == {seq[i] : i \in 1..Len(seq)}

\* the attributes of a tag that hold URLs
UrlAttrNames(tag) ==
    CASE tag = "img" -> {"src"}
      [] tag = "a" -> {"href"}
      [] tag = "video" -> {"src", "poster"}
      [] tag = "source" -> {"src"}
      [] OTHER -> {}

\* what the claim says the value v of a URL attribute becomes under base
ExpectedUrl(v, base) ==
    IF v = EmptyUrl THEN v
    ELSE IF v.scheme # "" THEN v
    ELSE IF UrlThrows(v, base) THEN v
    ELSE ResolveUrl(v, base)

\* C11: in the sanitized clone every non-empty relative URL attribute
\* (src of img/video/source, href of a, poster of video) is replaced by its
\* resolution against baseUrl, an absolute URL is unchanged, a value that
\* cannot be resolved is left as it was, and no other attribute value changes.
C11_UrlNormalization ==
    (last.op = "sanitize" /\ last.result.outcome = "returned") =>
        LET pre == FullPreorder(before, last.top)
            kept == SeqRange(FullPreorder(heap, last.clone))
        IN  \A i \in 1..Len(pre) :
                LET o == before[pre[i]]
                    c == last.clone + i - 1
                IN  c \in kept =>
                        \A a \in DOMAIN o.attrs :
                            \/ StartsWith(AttrSpelling[a], <<"o", "n">>) \/ a = "style"
                            \/ /\ a \in DOMAIN heap[c].attrs
                               /\ heap[c].attrs[a] =
                                      IF a \in UrlAttrNames(o.tag)
                                      THEN ExpectedUrl(o.attrs[a], last.options.baseUrl[1])
                                      ELSE o.attrs[a]

\* C12: every confidence that extractArticle returns, in an Extracted result
\* (rounded to 3 decimals) or in an Unavailable result, is at least 0 and
\* below 1: the score is not negative, a rounded confidence comes from a
\* tanh below 0.9995 (score below 80 * atanh(0.9995) = 331.75198...), an
\* unrounded one from a tanh that a double holds below 1 (score below
\* 1524.9237...).
C12_ConfidenceBound ==
    (last.op = "extract" /\ last.result.confidence # None) =>
        LET c == last.result.confidence[1]
        IN  /\ c.tanhOf.num >= 0
            /\ c.digits = "3" => CmpFrac(c.tanhOf.num, c.tanhOf.den, 33175198, 100000) < 0
            /\ c.digits = "all" => CmpFrac(c.tanhOf.num, c.tanhOf.den, 15249237, 10000) < 0

\* C13: cleanupExtractedContent never removes or changes the root it is
\* given, whatever the root's own tag, class, id or attributes are; only
\* descendants of the root are detached, and nothing else changes.
C13_RootNeverRemoved ==
    last.op = "cleanup" =>
        LET root == last.top
            under == SeqRange(FullPreorder(before, root)) \ {root}
        IN  /\ heap[root].parent = before[root].parent
            /\ heap[root].tag = before[root].tag
            /\ heap[root].attrs = before[root].attrs
            /\ heap[root].text = before[root].text
            /\ \A id \in DOMAIN before \ (under \cup {root}) : heap[id] = before[id]
            /\ \A id \in under \cup {root} :
                   /\ SeqRange(heap[id].kids) \subseteq SeqRange(before[id].kids)
                   /\ \A k \in SeqRange(before[id].kids) \ SeqRange(heap[id].kids) :
                          heap[k].parent = 0

\* a root that the predicates match, cleaned, with a descendant detached
C13_Witness ==
    /\ last.op = "cleanup"
    /\ isNavigation(before, last.top)
    /\ isFooter(before, last.top)
    /\ isScreenReaderTitle(before, last.top)
    /\ heap[last.top].kids # before[last.top].kids

C20_ScoreFormula ==
    last.op = "score" =>
        LET s == last.result
            el == last.top
            tl == s.textLength
            pc == s.paragraphCount
            density2 == IF pc >= 5 THEN 20 ELSE 3 * pc
            heading == IF \E d \in SeqRange(Descendants(heap, el)) : heap[d].tag \in {"h1", "h2"}
                       THEN 10 ELSE 0
            semantic == IF heap[el].tag \in {"article", "main"} THEN 15 ELSE 0
            nav == IF \E w \in NAVY_RE :
                          \/ Includes(ToLowerCase(ClassName(heap[el])), w)
                          \/ Includes(ToLowerCase(IdOf(heap[el])), w)
                   THEN 20 ELSE 0
            whole2 == 6 * pc + density2 + 2 * (heading + semantic - nav)
        IN  /\ s.headingBonus = heading
            /\ s.semanticBoost = semantic
            /\ s.navPenalty = nav
            /\ pc = Cardinality({d \in SeqRange(Descendants(heap, el)) : heap[d].tag = "p"})
            /\ IF tl = 0
               THEN CmpFrac(s.total.num, s.total.den, whole2, 2) = 0
               ELSE CmpFrac(s.total.num, s.total.den,
                            2 * tl * tl + 120 * tl * whole2 - 9600 * s.linkTextLength,
                            240 * tl) = 0

\* a main element with five paragraphs, a heading, a link and a keyword in
\* its id, scored
C20_Witness ==
    /\ last.op = "score"
    /\ last.result.paragraphCount >= 5
    /\ last.result.headingBonus = 10
    /\ last.result.semanticBoost = 15
    /\ last.result.navPenalty = 20
    /\ last.result.linkTextLength > 0

\* the call of the API fails: the provider is unknown, a custom provider has
\* no base URL, the fetch rejects, the status is no success or the body
\* cannot be read
ApiCallFails(config, reply) ==
    LET provider == IF config.provider = None THEN "groq" ELSE config.provider[1]
    IN  \/ provider \notin {"groq", "openai", "anthropic", "gemini", "custom"}
        \/ provider = "custom" /\ config.apiBaseUrl = None
        \/ reply.kind \in {"rejected", "rejected_value", "status", "invalid_json", "no_choices"}

\* C19: summarizeText never rejects; with a null config or an empty apiKey
\* it resolves to ok=false with errorCode 'no_api_key' and makes no network
\* call, whatever the text (the key is checked before the length); with a
\* key and a trimmed text shorter than 50 characters it resolves to ok=false
\* with errorCode 'unknown' and makes no network call; any failure of the
\* API call resolves to ok=false with an error and an errorCode and no
\* summary.
C19_GracefulDegradation ==
    last.op = "summarize" =>
        LET r == last.result
            keyed == last.config # None /\ last.config[1].apiKey # ""
            short == TextLen(Trim(last.text)) < 50
        IN  /\ r.outcome = "resolved"
            /\ ~keyed => (~r.ok /\ r.errorCode = Some("no_api_key") /\ r.fetches = 0)
            /\ (keyed /\ short) => (~r.ok /\ r.errorCode = Some("unknown") /\ r.fetches = 0)
            /\ (keyed /\ ~short /\ ApiCallFails(last.config[1], last.reply)) =>
                   /\ ~r.ok
                   /\ r.error # None
                   /\ r.errorCode # None
                   /\ r.errorCode[1] \in {"no_api_key", "api_error", "network_error", "timeout", "unknown"}
                   /\ r.summary = None
            /\ ~r.ok => (r.summary = None /\ r.error # None)

\* a call without a key on a text that is too short as well
C19_Witness ==
    /\ last.op = "summarize"
    /\ last.config = None
    /\ TextLen(Trim(last.text)) < 50
    /\ last.result.errorCode = Some("no_api_key")

\* the event is a request to activate: a call of activateReader or an
\* 'activate' message
IsActivationRequest(event) ==
    \/ event.kind = "call"
    \/ event.kind = "message" /\ event.arg.type = "activate"

\* C15: when the reader is already active, activateReader, and an
\* 'activate' message through handleReaderMessage, returns ok=false with
\* reason 'already_active' and leaves the rendered shell, the saved snapshot
\* and the theme and font state of the first session unchanged.
C15_DoubleActivation ==
    (last.op = "reader" /\ last.prior.reader.active /\ IsActivationRequest(last.event)) =>
        /\ last.response.outcome = "returned"
        /\ ~last.response.ok
        /\ last.response.reason = Some("already_active")
        /\ OuterHTML(heap, Body) = OuterHTML(before, Body)
        /\ reader = last.prior.reader
        /\ documentElement = last.prior.documentElement

\* C16: a successful activation followed by a deactivation leaves the
\* document equal to what it was before the activation, the content and the
\* attributes of the root element included, with no reader shell element
\* left, and isReaderActive() false; and so for every further cycle.
C16_RoundTrip ==
    (/\ last.op = "reader"
     /\ last.prior.reader.active
     /\ Deactivates(last.event, last.prior.reader.active)
     /\ last.origin # None) =>
        /\ OuterHTML(heap, Body) = last.origin[1].body
        /\ documentElement = last.origin[1].documentElement
        /\ GetElementById(heap, ELEMENT_ID_ROOT) = 0
        /\ ~isReaderActive(TheWorld)

\* the event is an 'activate' or a 'toggle-reader' message for which
\* extractArticle returned Unavailable
IsDeclinedActivation ==
    /\ last.op = "reader"
    /\ last.event.kind = "message"
    /\ last.event.arg.type \in {"activate", "toggle-reader"}
    /\ last.extraction # None
    /\ last.extraction[1].outcome = "returned"
    /\ last.extraction[1].unavailable

\* C17: a declined activation changes nothing: when extractArticle returns
\* Unavailable, activateReaderMode as handleReaderMessage calls it returns
\* ok=false with the reason of the extraction, does not call activateReader
\* (no snapshot, no shell, no listener), leaves the document unchanged and
\* leaves isReaderActive() false.
C17_DeclinedActivation ==
    IsDeclinedActivation =>
        /\ last.response.outcome = "returned"
        /\ ~last.response.ok
        /\ last.response.reason = Some(last.extraction[1].reason)
        /\ heap = before
        /\ reader = last.prior.reader
        /\ documentElement = last.prior.documentElement
        /\ listeners = last.prior.listeners
        /\ ~isReaderActive(TheWorld)

\* C18: after any sequence of messages, clicks and keys isReaderActive() is
\* true exactly when the most recent successful activation has not been
\* followed by a deactivation (by message, toggle, Exit button or Escape
\* key); a 'ping' message returns ok=true with active equal to that, and
\* changes nothing.
C18_PingReportsActive ==
    last.op = "reader" =>
        /\ isReaderActive(TheWorld) = last.expected
        /\ (last.event.kind = "message" /\ last.event.arg.type = "ping") =>
               /\ last.response.outcome = "returned"
               /\ last.response.ok
               /\ last.response.active = Some(last.expected)
               /\ heap = before
               /\ reader = last.prior.reader
               /\ documentElement = last.prior.documentElement
               /\ listeners = last.prior.listeners

\* a ping answered with active: true in a second session of the reader
C18_Witness ==
    /\ last.op = "reader"
    /\ last.event.kind = "message"
    /\ last.event.arg.type = "ping"
    /\ last.response.active = Some(TRUE)
    /\ listeners = 2

RECURSIVE SumTrimmedAnchorText(_, _)
\* the sum over the anchors of the length of their trimmed text
SumTrimmedAnchorText(h, anchors) ==
    IF anchors = << >> THEN 0
    ELSE TextLen(Trim(TextContent(h, Head(anchors))))
         + SumTrimmedAnchorText(h, Tail(anchors))

\* C21: for every subtree that scoreElement scores, linkTextLength is the
\* sum of the trimmed text lengths of its descendant anchors, linkRatio =
\* linkTextLength / textLength lies in [0, 1] (linkTextLength is at most
\* textLength, and 0 when textLength is 0 makes the ratio 0), and
\* linkPenalty = 40 * linkRatio is at most 40.
C21_LinkRatioBound ==
    last.op = "score" =>
        LET s == last.result
        IN  /\ s.linkTextLength =
                   SumTrimmedAnchorText(before, QuerySelectorAll(before, last.top, {"a"}))
            /\ s.linkTextLength >= 0
            /\ s.textLength > 0 => s.linkTextLength <= s.textLength
            /\ s.textLength > 0 => 40 * s.linkTextLength <= 40 * s.textLength

\* an element is visible, as the visibility rule states it: its trimmed
\* text is not empty, its own style declares neither display none nor
\* visibility hidden, and it has no hidden attribute
VisibleAsStated(h, el) ==
    /\ TextLen(Trim(TextContent(h, el))) > 0
    /\ ~(HasAttribute(h[el], "style") /\ h[el].attrs["style"]["display"] = "none")
    /\ ~(HasAttribute(h[el], "style") /\ h[el].attrs["style"]["visibility"] = "hidden")
    /\ "hidden" \notin DOMAIN h[el].attrs

\* the candidate-selector elements of the page before the call that are
\* visible as stated and meet the minimum requirements, in document order
StatedCandidates ==
    SelectSeq(Descendants(before, Body),
              LAMBDA el :
                  /\ before[el].tag \in {"article", "main", "div", "section"}
                  /\ VisibleAsStated(before, el)
                  /\ \/ TextLen(Trim(TextContent(before, el))) >= 150
                     \/ Len(QuerySelectorAll(before, el, {"p"})) >= 2)

RECURSIVE PathBelow(_, _, _)
\* d and its ancestors below top
PathBelow(h, d, top) ==
    IF d = 0 \/ d = top THEN {} ELSE {d} \cup PathBelow(h, h[d].parent, top)

\* the copy of d in the clone that the latest call made of its winner:
\* cloneNode allocates the copies in document order after the nodes there were
CloneOf(d) == Cardinality(DOMAIN before) + IndexOf(FullPreorder(before, last.top), d)

\* C22: an element is scored exactly when it is visible as stated, judged on
\* the element alone: the winner is visible itself, it is the best of the
\* elements that are visible themselves (hidden ancestors or descendants do
\* not count), no winner means no such element, and visibility is not
\* checked again after selection: a hidden descendant of the winner that
\* neither the sanitizer nor the cleanup takes out is in the result.
C22_VisibilityFilter ==
    last.op = "extract" =>
        /\ \A el \in DOMAIN before \ {Body} :
               isVisible(before, el) <=> VisibleAsStated(before, el)
        /\ last.top = 0 <=> StatedCandidates = << >>
        /\ last.top # 0 =>
               /\ VisibleAsStated(before, last.top)
               /\ \E i \in 1..Len(StatedCandidates) : StatedCandidates[i] = last.top
               /\ \A i \in 1..Len(StatedCandidates) :
                      FracCmp(TotalOfElement(StatedCandidates[i]),
                              TotalOfElement(last.top)) <= 0
        /\ IsExtracted(last.result) =>
               \A d \in SeqRange(Descendants(before, last.top)) :
                   (/\ ~VisibleAsStated(before, d)
                    /\ \A x \in PathBelow(before, d, last.top) :
                           /\ before[x].tag \notin REMOVED_TAGS
                           /\ ~MatchesNonContent(before, x))
                   => CloneOf(d) \in SeqRange(Descendants(heap, last.clone))

\* an article under a hidden ancestor wins, all of its text lies in a
\* descendant hidden by its style, and that descendant is in the result
C22_Witness ==
    /\ last.op = "extract"
    /\ IsExtracted(last.result)
    /\ \E a \in DOMAIN before : /\ last.top \in SeqRange(Descendants(before, a))
                                /\ HasAttribute(before[a], "hidden")
    /\ \E d \in SeqRange(Descendants(before, last.top)) :
           /\ StyleProperty(before[d], "display") = "none"
           /\ TextLen(TextContent(before, d)) >= 150
           /\ CloneOf(d) \in SeqRange(Descendants(heap, last.clone))
    /\ \E s \in DOMAIN before : /\ StyleProperty(before[s], "visibility") = "hidden"
                                /\ before[s].tag = "section"
                                /\ TextLen(TextContent(before, s)) >= 150

\* parent and children of every node, as the heap h has them
Shape(h) == [id \in DOMAIN h |-> [parent |-> h[id].parent, kids |-> h[id].kids]]

\* C23: in the walks of sanitizeClone and cleanupExtractedContent, no
\* element is detached while the walk runs (the tree keeps the shape it had
\* when the walk started, and the elements to remove are only collected),
\* the collected elements are detached only once the walk is over, and when
\* the walk is over it has visited every descendant that was there when it
\* started, each exactly once, in document order.
C23_DeferredRemoval ==
    last.op = "walk" =>
        /\ last.state = "walking" => Shape(heap) = Shape(last.start)
        /\ last.state = "walking" =>
               \E n \in 0..Len(Descendants(last.start, last.root)) :
                   last.visited = SubSeq(Descendants(last.start, last.root), 1, n)
        /\ SeqRange(last.toRemove) \subseteq SeqRange(last.visited)
        /\ last.state # "walking" =>
               last.visited = Descendants(last.start, last.root)
        /\ last.state = "done" =>
               \A id \in DOMAIN heap :
                   heap[id].parent # last.start[id].parent => id \in SeqRange(last.toRemove)

\* the heading heuristic as the rule for related content states it
HeadingHeuristic(h, el) ==
    LET start == ToLowerCase(Substring0(Trim(TextContent(h, el)), 50))
        links == Cardinality({d \in SeqRange(Descendants(h, el)) : h[d].tag = "a"})
        paragraphs == Cardinality({d \in SeqRange(Descendants(h, el)) : h[d].tag = "p"})
    IN  /\ \E w \in relatedHeadings : StartsWith(start, w)
        /\ links > 5
        /\ paragraphs < links
        /\ links > 2 * paragraphs

\* C24: isRelatedContent(el) is true exactly when el's class contains
\* bestlistlinkblock or articlelinkblock in any letter case, or the heading
\* heuristic holds: the first 50 characters of el's trimmed text start with
\* guide(s), related, recommended, you may also, read more or similar in any
\* letter case, and el has more than 5 descendant links, fewer paragraphs
\* than links and more than twice as many links as paragraphs.  An element
\* with at least half as many paragraphs as links is flagged only by its class.
C24_RelatedContent ==
    last.op = "classify" =>
        LET el == last.top
            class == ToLowerCase(ClassName(before[el]))
            byClass == \E w \in relatedPatterns : Includes(class, w)
            links == Len(QuerySelectorAll(before, el, {"a"}))
            paragraphs == Len(QuerySelectorAll(before, el, {"p"}))
        IN  /\ last.result.related <=> (byClass \/ HeadingHeuristic(before, el))
            /\ (2 * paragraphs >= links /\ ~byClass) => ~last.result.related

\* a block headed "Related" with 6 links and 3 paragraphs is not flagged
C24_Witness ==
    /\ last.op = "classify"
    /\ ~last.result.related
    /\ StartsWith(ToLowerCase(Substring0(Trim(TextContent(before, last.top)), 50)),
                  <<"r", "e", "l", "a", "t", "e", "d">>)
    /\ Len(QuerySelectorAll(before, last.top, {"a"})) = 6
    /\ Len(QuerySelectorAll(before, last.top, {"p"})) = 3

\* el carries one of the ad-data attributes, whatever its value
CarriesAdData(h, el) ==
    "data-ad" \in DOMAIN h[el].attrs \/ "data-ad-callout" \in DOMAIN h[el].attrs

\* C25: every element that carries a data-ad or data-ad-callout attribute,
\* whatever its value (the empty string included), is classified by
\* isAdContainer, and no element of the html of an Extracted result carries
\* one: the ones below the winning candidate have been removed.
C25_AdContainerRule ==
    /\ (last.op = "classify" /\ CarriesAdData(before, last.top)) => last.result.ad
    /\ (last.op = "extract" /\ IsExtracted(last.result)) =>
           \A d \in SeqRange(Descendants(heap, last.clone)) : ~CarriesAdData(heap, d)

\* C26: the confidence reported in an Extracted result, the value rounded
\* to 3 decimals, is not below the threshold the call was made with (0.35
\* when none was passed).
C26_ReportedNotBelowThreshold ==
    (last.op = "extract" /\ IsExtracted(last.result)) =>
        /\ last.result.confidence[1].digits = "3"
        /\ ~Rounded3Below([last.result.confidence[1] EXCEPT !.digits = "all"],
                          ThresholdInForce(last.options))

\* the top-ranked viable candidate of the page before the call: a maximal
\* total, and the first in document order among those
TopRanked ==
    ViableElements[
        CHOOSE i \in 1..Len(ViableElements) :
            \A j \in 1..Len(ViableElements) :
                LET c == FracCmp(TotalOfElement(ViableElements[j]),
                                 TotalOfElement(ViableElements[i]))
                IN  c < 0 \/ (c = 0 /\ i <= j)]

\* C27: the text of an Extracted result is never longer than the scored
\* textLength of the winning candidate, and when the top-ranked candidate
\* has a textLength below 150 (it was admitted by its two paragraphs) the
\* call does not return Extracted, whatever other viable candidates there are.
C27_NoFallbackToLongerCandidate ==
    last.op = "extract" =>
        /\ IsExtracted(last.result) =>
               TextLen(last.result.text[1]) <= scoreElement(before, last.top, 0).textLength
        /\ (ViableElements # << >>
            /\ scoreElement(before, TopRanked, 0).textLength < 150)
           => ~IsExtracted(last.result)

\* the top-ranked candidate has two paragraphs and less than 150
\* characters, another viable candidate has 150 or more, the threshold is
\* met, and the call is declined for the size of the content
C27_Witness ==
    /\ last.op = "extract"
    /\ IsUnavailable(last.result, "Extracted content too small")
    /\ last.top = TopRanked
    /\ scoreElement(before, TopRanked, 0).textLength < 150
    /\ scoreElement(before, TopRanked, 0).paragraphCount >= 2
    /\ \E i \in 1..Len(ViableElements) :
           scoreElement(before, ViableElements[i], 0).textLength >= 150

\* C28: whenever the reader is active, the font scale held in the reader
\* state lies in [FONT_SCALE.MIN, FONT_SCALE.MAX] and is the one applied to
\* the document (the --sr-font-scale property of the <html> element).
C28_FontScaleInRange ==
    reader.active =>
        /\ reader.state # None
        /\ reader.state[1].fontScale >= FONT_SCALE_MIN
        /\ reader.state[1].fontScale <= FONT_SCALE_MAX
        /\ documentElement.style = Some(reader.state[1].fontScale)

\* the key of the latest event changed the font scale by delta, clamped
KeyMovedFontScale(delta) ==
    /\ reader.state # None
    /\ reader.state[1].fontScale =
           clampFontScale(last.prior.reader.state[1].fontScale + delta)
    /\ reader.state[1].theme = last.prior.reader.state[1].theme
    /\ reader.active

\* C29: while the reader is active one '+' or '=' key press raises the font
\* scale by exactly one FONT_SCALE.INCREMENT (clamped) and one '-' lowers it
\* by exactly one, however many sessions there were before; a key press
\* while the reader is off changes neither the reader state nor the document.
C29_KeyActsOnce ==
    (last.op = "reader" /\ last.event.kind = "key") =>
        /\ (last.prior.reader.active /\ last.event.arg \in {"+", "="}) =>
               KeyMovedFontScale(FONT_SCALE_INCREMENT)
        /\ (last.prior.reader.active /\ last.event.arg = "-") =>
               KeyMovedFontScale(0 - FONT_SCALE_INCREMENT)
        /\ ~last.prior.reader.active =>
               /\ reader = last.prior.reader
               /\ heap = before
               /\ documentElement = last.prior.documentElement
               /\ listeners = last.prior.listeners

\* C30: the snapshot is restored only into the document it was taken from:
\* a handler that ends a session (the document is given back its saved
\* html) was given the document the session was started on, and while a
\* session started on one document is active every handler that is given
\* the other document either rejects the call with 'already_active' or
\* leaves that document as it was.
C30_SnapshotStaysHome ==
    last.op = "reader" =>
        /\ (last.prior.reader.active /\ ~reader.active) =>
               last.prior.session = Some(CurrentName)
        /\ (last.prior.reader.active /\ last.prior.session # Some(CurrentName)) =>
               \/ last.response.reason = Some("already_active")
               \/ /\ heap = before
                  /\ documentElement = last.prior.documentElement
                  /\ listeners = last.prior.listeners
====
